---------------------------- MODULE Spec2Model ----------------------------
(***************************************************************************)
(* HotelFinder front end: the Zustand hotel store (store/hotelStore.js),   *)
(* its localStorage persistence, the Explore Section recommendation form   *)
(* (components/ExploreSection.jsx) and the router table (App.jsx).         *)
(*                                                                         *)
(* Conventions.                                                            *)
(*  - A JavaScript string is a tuple of one-character strings, so that     *)
(*    toLowerCase() and includes() are computed and not assumed.           *)
(*  - Ratings are held in tenths (4.8 is 48, the 4.5 threshold is 45).     *)
(*  - parseInt yields << >> for NaN and <<n>> for the integer n.           *)
(***************************************************************************)
EXTENDS Integers, Sequences, FiniteSets, TLC

VARIABLES
    \* ---- useHotelStore state (hotelStore.js 156-168)
    hotels, loading, error, searchResults, favorites, bookingData, filters,
    \* ---- the 'hotel-storage' localStorage entry written by persist()
    storage,
    \* ---- store fetches that are awaiting their timer, in issue order
    pending,
    \* ---- the last store call seen by a caller: its arguments and what it
    \*      returned (or how its promise settled)
    lastCall,
    \* ---- ExploreSection component state (ExploreSection.jsx 186-198)
    formData, selectedDates, guests, isLoading, exploreError,
    \* ---- recommendation requests awaiting the network, oldest first
    requests,
    \* ---- react-router: current location (pathname and search part) and
    \*      the location state carried with it
    route, navState,
    \* ---- the last user-interface event and what became of it
    lastEvent,
    \* ---- the page-availability table (utils/pageAvailability.js 5-38)
    pageAvailability,
    \* ---- Header component state (Header 8-10)
    isMenuOpen, isSearchOpen, searchQuery,
    \* ---- HotelDetails component state (HotelDetails 33-38); hotel and
    \*      guests of the source are detailsHotel and detailsGuests here
    detailsHotel, currentImageIndex, selectedRoomType, checkIn, checkOut,
    detailsGuests,
    \* ---- the icons last drawn by a renderStars call
    stars,
    \* ---- SearchResults component state (SearchResults.jsx 10, 25)
    localFilters, showFilters

storeVars == <<hotels, loading, error, searchResults, favorites, bookingData,
               filters, storage, pending, lastCall>>
exploreVars == <<formData, selectedDates, guests, isLoading, exploreError,
                 requests, route, navState, lastEvent>>
resultsVars == <<localFilters, showFilters>>
headerVars == <<isMenuOpen, isSearchOpen, searchQuery>>
detailsVars == <<detailsHotel, currentImageIndex, selectedRoomType, checkIn,
                 checkOut, detailsGuests>>
pageVars == <<pageAvailability, localFilters, showFilters, isMenuOpen, isSearchOpen, searchQuery,
              detailsHotel, currentImageIndex, selectedRoomType, checkIn,
              checkOut, detailsGuests, stars>>
vars == <<hotels, loading, error, searchResults, favorites, bookingData,
          filters, storage, pending, lastCall,
          formData, selectedDates, guests, isLoading, exploreError,
          requests, route, navState, lastEvent,
          pageAvailability, localFilters, showFilters,
          isMenuOpen, isSearchOpen, searchQuery,
          detailsHotel, currentImageIndex, selectedRoomType, checkIn,
          checkOut, detailsGuests, stars>>

(***************************************************************************)
(* Bounds of the model                                                     *)
(***************************************************************************)
\* store fetches that may be awaiting their timer at once
MaxPending == 2
\* recommendation requests that may be awaiting the network at once
MaxRequests == 2

\* null in a slot that otherwise holds an object, null in a slot that
\* otherwise holds a string, and the undefined that Array.find returns
Null == [isNull |-> TRUE]
NullString == <<"null">>
Undefined == [isUndefined |-> TRUE]

(***************************************************************************)
(* JavaScript strings                                                      *)
(***************************************************************************)
UpperToLower ==
    ("A" :> "a") @@ ("B" :> "b") @@ ("C" :> "c") @@ ("D" :> "d") @@
    ("E" :> "e") @@ ("F" :> "f") @@ ("G" :> "g") @@ ("H" :> "h") @@
    ("I" :> "i") @@ ("J" :> "j") @@ ("K" :> "k") @@ ("L" :> "l") @@
    ("M" :> "m") @@ ("N" :> "n") @@ ("O" :> "o") @@ ("P" :> "p") @@
    ("Q" :> "q") @@ ("R" :> "r") @@ ("S" :> "s") @@ ("T" :> "t") @@
    ("U" :> "u") @@ ("V" :> "v") @@ ("W" :> "w") @@ ("X" :> "x") @@
    ("Y" :> "y") @@ ("Z" :> "z")

\* String.prototype.toLowerCase
ToLowerCase(s) ==
    [i \in 1..Len(s) |->
        IF s[i] \in DOMAIN UpperToLower THEN UpperToLower[s[i]] ELSE s[i]]

\* String.prototype.includes: sub occurs in s as a contiguous run
Includes(s, sub) ==
    \E i \in 0..(Len(s) - Len(sub)) : SubSeq(s, i + 1, i + Len(sub)) = sub

DigitValue ==
    ("0" :> 0) @@ ("1" :> 1) @@ ("2" :> 2) @@ ("3" :> 3) @@ ("4" :> 4) @@
    ("5" :> 5) @@ ("6" :> 6) @@ ("7" :> 7) @@ ("8" :> 8) @@ ("9" :> 9)

DigitChar == <<"0", "1", "2", "3", "4", "5", "6", "7", "8", "9">>

RECURSIVE DigitsValue(_)
DigitsValue(s) ==
    IF Len(s) = 0 THEN 0
    ELSE 10 * DigitsValue(SubSeq(s, 1, Len(s) - 1)) + DigitValue[s[Len(s)]]

RECURSIVE LeadingDigits(_)
LeadingDigits(s) ==
    IF Len(s) > 0 /\ s[1] \in DOMAIN DigitValue
    THEN <<s[1]>> \o LeadingDigits(Tail(s))
    ELSE << >>

\* parseInt(x): the integer spelled by the leading digits, NaN (<< >>)
\* when there are none
ParseInt(s) ==
    IF LeadingDigits(s) = << >> THEN << >>
    ELSE <<DigitsValue(LeadingDigits(s))>>

RECURSIVE NatToText(_)
NatToText(n) ==
    IF n < 10 THEN <<DigitChar[n + 1]>>
    ELSE NatToText(n \div 10) \o <<DigitChar[(n % 10) + 1]>>

(***************************************************************************)
(* The sample catalog (hotelStore.js 6-148)                                *)
(***************************************************************************)
sampleHotels == <<
    [ id |-> 1,
      name |-> <<"G","r","a","n","d"," ","P","a","l","a","c","e"," ","H","o","t","e","l">>,
      slug |-> <<"g","r","a","n","d","-","p","a","l","a","c","e","-","h","o","t","e","l">>,
      location |-> <<"N","e","w"," ","Y","o","r","k",","," ","N","Y">>,
      price |-> 299,
      rating |-> 48,
      reviews |-> 1250,
      description |-> <<"E","x","p","e","r","i","e","n","c","e"," ","l","u","x","u","r","y"," ","a","t"," ","i","t","s"," ","f","i","n","e","s","t"," ","i","n"," ","t","h","e"," ","h","e","a","r","t"," ","o","f"," ","M","a","n","h","a","t","t","a","n","."," ","T","h","i","s"," ","e","l","e","g","a","n","t"," ","h","o","t","e","l"," ","o","f","f","e","r","s"," ","w","o","r","l","d","-","c","l","a","s","s"," ","a","m","e","n","i","t","i","e","s",","," ","e","x","c","e","p","t","i","o","n","a","l"," ","s","e","r","v","i","c","e",","," ","a","n","d"," ","b","r","e","a","t","h","t","a","k","i","n","g"," ","c","i","t","y"," ","v","i","e","w","s",".">>,
      amenities |-> << <<"F","r","e","e"," ","W","i","-","F","i">>, <<"S","w","i","m","m","i","n","g"," ","P","o","o","l">>, <<"F","i","t","n","e","s","s"," ","C","e","n","t","e","r">>,
                       <<"S","p","a"," ","&"," ","W","e","l","l","n","e","s","s">>, <<"R","e","s","t","a","u","r","a","n","t">>, <<"R","o","o","m"," ","S","e","r","v","i","c","e">>,
                       <<"B","u","s","i","n","e","s","s"," ","C","e","n","t","e","r">>, <<"C","o","n","c","i","e","r","g","e">> >>,
      images |-> << "photo-1566073771259-6a8506099945",
                    "photo-1564501049412-61c2a3083791",
                    "photo-1582719478250-c89cae4dc85b" >>,
      roomTypes |-> << [type |-> <<"S","t","a","n","d","a","r","d"," ","R","o","o","m">>, price |-> 299],
                       [type |-> <<"D","e","l","u","x","e"," ","S","u","i","t","e">>, price |-> 499],
                       [type |-> <<"P","r","e","s","i","d","e","n","t","i","a","l"," ","S","u","i","t","e">>, price |-> 899] >> ],
    [ id |-> 2,
      name |-> <<"O","c","e","a","n","v","i","e","w"," ","R","e","s","o","r","t">>,
      slug |-> <<"o","c","e","a","n","v","i","e","w","-","r","e","s","o","r","t">>,
      location |-> <<"M","i","a","m","i",","," ","F","L">>,
      price |-> 399,
      rating |-> 46,
      reviews |-> 890,
      description |-> <<"R","e","l","a","x"," ","a","n","d"," ","u","n","w","i","n","d"," ","a","t"," ","t","h","i","s"," ","b","e","a","u","t","i","f","u","l"," ","b","e","a","c","h","f","r","o","n","t"," ","r","e","s","o","r","t"," ","w","i","t","h"," ","s","t","u","n","n","i","n","g"," ","o","c","e","a","n"," ","v","i","e","w","s",","," ","p","r","i","s","t","i","n","e"," ","b","e","a","c","h","e","s",","," ","a","n","d"," ","t","r","o","p","i","c","a","l"," ","p","a","r","a","d","i","s","e"," ","a","t","m","o","s","p","h","e","r","e",".">>,
      amenities |-> << <<"B","e","a","c","h"," ","A","c","c","e","s","s">>, <<"S","w","i","m","m","i","n","g"," ","P","o","o","l">>, <<"W","a","t","e","r"," ","S","p","o","r","t","s">>,
                       <<"S","p","a"," ","&"," ","W","e","l","l","n","e","s","s">>, <<"M","u","l","t","i","p","l","e"," ","R","e","s","t","a","u","r","a","n","t","s">>,
                       <<"B","a","r","s"," ","&"," ","L","o","u","n","g","e","s">>, <<"K","i","d","s"," ","C","l","u","b">>, <<"T","e","n","n","i","s"," ","C","o","u","r","t">> >>,
      images |-> << "photo-1571896349842-33c89424de2d",
                    "photo-1520250497591-112f2f40a3f4",
                    "photo-1584132967334-10e028bd69f7" >>,
      roomTypes |-> << [type |-> <<"O","c","e","a","n"," ","V","i","e","w"," ","R","o","o","m">>, price |-> 399],
                       [type |-> <<"B","e","a","c","h"," ","V","i","l","l","a">>, price |-> 699] >> ],
    [ id |-> 3,
      name |-> <<"M","o","u","n","t","a","i","n"," ","L","o","d","g","e"," ","R","e","t","r","e","a","t">>,
      slug |-> <<"m","o","u","n","t","a","i","n","-","l","o","d","g","e","-","r","e","t","r","e","a","t">>,
      location |-> <<"A","s","p","e","n",","," ","C","O">>,
      price |-> 249,
      rating |-> 47,
      reviews |-> 567,
      description |-> <<"E","s","c","a","p","e"," ","t","o"," ","t","h","e"," ","m","o","u","n","t","a","i","n","s"," ","a","n","d"," ","e","n","j","o","y"," ","c","o","z","y"," ","a","c","c","o","m","m","o","d","a","t","i","o","n","s"," ","s","u","r","r","o","u","n","d","e","d"," ","b","y"," ","p","r","i","s","t","i","n","e"," ","w","i","l","d","e","r","n","e","s","s",","," ","p","e","r","f","e","c","t"," ","f","o","r"," ","o","u","t","d","o","o","r"," ","e","n","t","h","u","s","i","a","s","t","s"," ","a","n","d"," ","n","a","t","u","r","e"," ","l","o","v","e","r","s",".">>,
      amenities |-> << <<"S","k","i"," ","A","c","c","e","s","s">>, <<"F","i","r","e","p","l","a","c","e"," ","L","o","u","n","g","e">>, <<"H","o","t"," ","T","u","b">>,
                       <<"H","i","k","i","n","g"," ","T","r","a","i","l","s">>, <<"R","e","s","t","a","u","r","a","n","t">>, <<"G","a","m","e"," ","R","o","o","m">>,
                       <<"S","k","i"," ","E","q","u","i","p","m","e","n","t"," ","R","e","n","t","a","l">>, <<"M","o","u","n","t","a","i","n"," ","V","i","e","w","s">> >>,
      images |-> << "photo-1551882547-ff40c63fe5fa",
                    "photo-1506905925346-21bda4d32df4",
                    "photo-1445019980597-93fa8acb246c" >>,
      roomTypes |-> << [type |-> <<"C","o","z","y"," ","C","a","b","i","n"," ","R","o","o","m">>, price |-> 249],
                       [type |-> <<"L","o","d","g","e"," ","S","u","i","t","e">>, price |-> 449] >> ] >>

\* the store's initial filters (hotelStore.js 162-168)
DefaultFilters ==
    [ minPrice |-> 0, maxPrice |-> 1000, location |-> << >>,
      minRating |-> 0, amenities |-> << >> ]

Range(seq) == { seq[i] : i \in 1..Len(seq) }

\* Array.prototype.filter is SelectSeq: the kept elements, in order

(***************************************************************************)
(* getHotelById (hotelStore.js 175-178)                                    *)
(***************************************************************************)
\* hotels.find(hotel => hotel.id === parseInt(id)): the first match, or
\* Undefined
getHotelById(hs, id) ==
    LET found == SelectSeq(hs, LAMBDA h : ParseInt(id) = <<h.id>>)
    IN  IF Len(found) = 0 THEN Undefined ELSE Head(found)

(***************************************************************************)
(* searchHotels (hotelStore.js 187-226)                                    *)
(***************************************************************************)
\* lines 192-196, dropping the description test
MatchesQueryNoDescription(hotel, query) ==
    \/ Includes(ToLowerCase(hotel.name), ToLowerCase(query))
    \/ Includes(ToLowerCase(hotel.location), ToLowerCase(query))

\* lines 191-197: if (query) keep the hotels whose name, location or
\* description contains it
MatchesQuery(hotel, query) ==
    Len(query) > 0 =>
        \/ Includes(ToLowerCase(hotel.name), ToLowerCase(query))
        \/ Includes(ToLowerCase(hotel.location), ToLowerCase(query))
        \/ Includes(ToLowerCase(hotel.description), ToLowerCase(query))

\* lines 200-205: each bound is applied only when it is truthy (non-zero)
PassesPrice(hotel, f) ==
    /\ (f.minPrice # 0 => hotel.price >= f.minPrice)
    /\ (f.maxPrice # 0 => hotel.price <= f.maxPrice)

\* lines 206-210
PassesLocation(hotel, f) ==
    Len(f.location) > 0 =>
        Includes(ToLowerCase(hotel.location), ToLowerCase(f.location))

\* lines 211-213
PassesRating(hotel, f) ==
    f.minRating # 0 => hotel.rating >= f.minRating

\* a label test that asks for the whole label instead of a part of it
AmenityLabelEquals(hotelAmenity, amenity) ==
    ToLowerCase(hotelAmenity) = ToLowerCase(amenity)

\* line 218: hotelAmenity.toLowerCase().includes(amenity.toLowerCase())
AmenityLabelMatches(hotelAmenity, amenity) ==
    Includes(ToLowerCase(hotelAmenity), ToLowerCase(amenity))

\* lines 214-222: every filter amenity matches some label of the hotel
PassesAmenities(hotel, f) ==
    Len(f.amenities) > 0 =>
        \A i \in 1..Len(f.amenities) :
            \E j \in 1..Len(hotel.amenities) :
                AmenityLabelMatches(hotel.amenities[j], f.amenities[i])

\* the list searchHotels computes from the catalog it reads
FilteredHotels(hs, query, f) ==
    SelectSeq(hs, LAMBDA h : /\ MatchesQuery(h, query)
                          /\ PassesPrice(h, f)
                          /\ PassesLocation(h, f)
                          /\ PassesRating(h, f)
                          /\ PassesAmenities(h, f))

(***************************************************************************)
(* persist middleware: the JSON text of partialize(state)                  *)
(***************************************************************************)
\* JSON.stringify of a number held in tenths: "4" for 40, "4.5" for 45
TenthsToText(n) ==
    NatToText(n \div 10) \o
    (IF n % 10 = 0 THEN << >> ELSE <<".", DigitChar[(n % 10) + 1]>>)

\* JSON.parse of such a number
TextToTenths(t) ==
    LET whole == LeadingDigits(t)
        rest  == SubSeq(t, Len(whole) + 1, Len(t))
    IN  10 * DigitsValue(whole) +
        (IF Len(rest) = 2 /\ rest[1] = "." THEN DigitValue[rest[2]] ELSE 0)

\* JSON.stringify of a string: the text between quotes
QuoteText(s) == <<"'">> \o s \o <<"'">>

UnquoteText(t) == SubSeq(t, 2, Len(t) - 1)

\* partialize keeping the favourites only
PartializeFavoritesOnly(favs, fs) ==
    [ favorites |-> [i \in 1..Len(favs) |-> NatToText(favs[i])] ]

\* hotelStore.js 289-292 followed by JSON.stringify: only favorites and
\* filters are written
Partialize(favs, fs) ==
    [ favorites |-> [i \in 1..Len(favs) |-> NatToText(favs[i])],
      filters |->
        [ minPrice |-> NatToText(fs.minPrice),
          maxPrice |-> NatToText(fs.maxPrice),
          location |-> QuoteText(fs.location),
          minRating |-> TenthsToText(fs.minRating),
          amenities |->
            [i \in 1..Len(fs.amenities) |-> QuoteText(fs.amenities[i])] ] ]

\* JSON.parse of the entry
ParseFavorites(entry) ==
    [i \in 1..Len(entry.favorites) |-> DigitsValue(entry.favorites[i])]

ParseFilters(entry) ==
    [ minPrice |-> DigitsValue(entry.filters.minPrice),
      maxPrice |-> DigitsValue(entry.filters.maxPrice),
      location |-> UnquoteText(entry.filters.location),
      minRating |-> TextToTenths(entry.filters.minRating),
      amenities |->
        [i \in 1..Len(entry.filters.amenities) |->
            UnquoteText(entry.filters.amenities[i])] ]

\* every set() of the store is followed by the middleware's setItem
Persisted == storage' = Partialize(favorites', filters')

(***************************************************************************)
(* Initial state: create(devtools(persist(...))) with an empty storage,    *)
(* Home mounted at "/"                                                     *)
(***************************************************************************)
NoCall == [op |-> "none"]
NoEvent == [kind |-> "none"]

InitialFormData ==
    [ city |-> << >>, preferred_amenities |-> << >>,
      budget_min_inr |-> 1000, budget_max_inr |-> 10000,
      min_star_rating |-> 2, top_n |-> 5 ]

InitialDates == [checkin |-> << >>, checkout |-> << >>]

StoreInit ==
    /\ hotels = sampleHotels
    /\ loading = FALSE
    /\ error = NullString
    /\ searchResults = << >>
    /\ favorites = << >>
    /\ bookingData = Null
    /\ filters = DefaultFilters
    /\ storage = Partialize(<< >>, DefaultFilters)
    /\ pending = << >>
    /\ lastCall = NoCall

\* utils/pageAvailability.js 5-38, in the order of Object.entries
pageAvailabilityTable == <<
    [path |-> <<"/">>, available |-> TRUE],
    [path |-> <<"/","a","b","o","u","t">>, available |-> TRUE],
    [path |-> <<"/","s","e","r","v","i","c","e","s">>, available |-> FALSE],
    [path |-> <<"/","f","a","c","i","l","i","t","i","e","s">>, available |-> FALSE],
    [path |-> <<"/","m","e","m","b","e","r","s","h","i","p">>, available |-> FALSE],
    [path |-> <<"/","c","o","n","t","a","c","t">>, available |-> TRUE],
    [path |-> <<"/","t","e","a","m">>, available |-> TRUE],
    [path |-> <<"/","s","e","a","r","c","h">>, available |-> TRUE],
    [path |-> <<"/","b","o","o","k","i","n","g">>, available |-> TRUE],
    [path |-> <<"/","h","e","l","p">>, available |-> FALSE],
    [path |-> <<"/","p","r","i","v","a","c","y">>, available |-> FALSE],
    [path |-> <<"/","t","e","r","m","s">>, available |-> FALSE],
    [path |-> <<"/","c","a","n","c","e","l","l","a","t","i","o","n">>, available |-> FALSE],
    [path |-> <<"/","f","a","q">>, available |-> FALSE],
    [path |-> <<"/","c","o","o","k","i","e","s">>, available |-> FALSE],
    [path |-> <<"/","l","o","g","i","n">>, available |-> FALSE],
    [path |-> <<"/","r","e","g","i","s","t","e","r">>, available |-> FALSE],
    [path |-> <<"/","p","r","o","f","i","l","e">>, available |-> FALSE],
    [path |-> <<"/","b","o","o","k","i","n","g","s">>, available |-> FALSE],
    [path |-> <<"/","f","a","v","o","r","i","t","e","s">>, available |-> FALSE],
    [path |-> <<"/","a","d","m","i","n">>, available |-> FALSE],
    [path |-> <<"/","a","d","m","i","n","/","h","o","t","e","l","s">>, available |-> FALSE],
    [path |-> <<"/","a","d","m","i","n","/","b","o","o","k","i","n","g","s">>, available |-> FALSE] >>

NoStars == [page |-> "none"]

\* Header 8-10 and HotelDetails 33-38
PageInit ==
    /\ pageAvailability = pageAvailabilityTable
    /\ isMenuOpen = FALSE
    /\ isSearchOpen = FALSE
    /\ searchQuery = << >>
    /\ detailsHotel = Null
    /\ currentImageIndex = 0
    /\ selectedRoomType = 0
    /\ checkIn = << >>
    /\ checkOut = << >>
    /\ detailsGuests = 2
    /\ stars = NoStars
    /\ localFilters = Null
    /\ showFilters = FALSE

ExploreInit ==
    /\ formData = InitialFormData
    /\ selectedDates = InitialDates
    /\ guests = 1
    /\ isLoading = FALSE
    /\ exploreError = << >>
    /\ requests = << >>
    /\ route = <<"/">>
    /\ navState = Null
    /\ lastEvent = NoEvent

Init == StoreInit /\ ExploreInit /\ PageInit

(***************************************************************************)
(* Store operations                                                        *)
(***************************************************************************)
\* searchHotels(query, filters): hotelStore.js 187-226
SearchHotels(query, f) ==
    /\ searchResults' = FilteredHotels(hotels, query, f)
    /\ lastCall' = [op |-> "searchHotels", query |-> query, filters |-> f]
    /\ UNCHANGED <<exploreVars, pageVars>>
    /\ UNCHANGED <<hotels, loading, error, favorites, bookingData, filters,
                   pending>>
    /\ Persisted

\* setFilters(newFilters): hotelStore.js 229-231
SetFilters(newFilters) ==
    /\ filters' = newFilters @@ filters
    /\ lastCall' = [op |-> "setFilters"]
    /\ UNCHANGED <<exploreVars, pageVars>>
    /\ UNCHANGED <<hotels, loading, error, searchResults, favorites,
                   bookingData, pending>>
    /\ Persisted

\* clearSearchResults(): hotelStore.js 234
ClearSearchResults ==
    /\ searchResults' = << >>
    /\ lastCall' = [op |-> "clearSearchResults"]
    /\ UNCHANGED <<exploreVars, pageVars>>
    /\ UNCHANGED <<hotels, loading, error, favorites, bookingData, filters,
                   pending>>
    /\ Persisted

\* an add that appends without looking
AppendFavorite(favs, hotelId) == Append(favs, hotelId)

\* hotelStore.js 237-241
AddedFavorites(favs, hotelId) ==
    IF hotelId \in Range(favs) THEN favs ELSE Append(favs, hotelId)

\* hotelStore.js 243-245
RemovedFavorites(favs, hotelId) ==
    SelectSeq(favs, LAMBDA id : id # hotelId)

\* hotelStore.js 247-250
IsFavoriteIn(favs, hotelId) == hotelId \in Range(favs)

AddToFavorites(hotelId) ==
    /\ favorites' = AddedFavorites(favorites, hotelId)
    /\ lastCall' = [ op |-> "addToFavorites",
                     was |-> IsFavoriteIn(favorites, hotelId) ]
    /\ UNCHANGED <<exploreVars, pageVars>>
    /\ UNCHANGED <<hotels, loading, error, searchResults, bookingData,
                   filters, pending>>
    /\ Persisted

RemoveFromFavorites(hotelId) ==
    /\ favorites' = RemovedFavorites(favorites, hotelId)
    /\ lastCall' = [ op |-> "removeFromFavorites",
                     was |-> IsFavoriteIn(favorites, hotelId) ]
    /\ UNCHANGED <<exploreVars, pageVars>>
    /\ UNCHANGED <<hotels, loading, error, searchResults, bookingData,
                   filters, pending>>
    /\ Persisted

\* isFavorite reads the store and sets nothing
IsFavorite(hotelId) ==
    /\ lastCall' = [ op |-> "isFavorite", id |-> hotelId,
                     ret |-> IsFavoriteIn(favorites, hotelId) ]
    /\ UNCHANGED <<hotels, loading, error, searchResults, favorites,
                   bookingData, filters, storage, pending>>
    /\ UNCHANGED <<exploreVars, pageVars>>

\* setBookingData(data) / clearBookingData(): hotelStore.js 253-254
SetBookingData(data) ==
    /\ bookingData' = data
    /\ lastCall' = [op |-> "setBookingData"]
    /\ UNCHANGED <<exploreVars, pageVars>>
    /\ UNCHANGED <<hotels, loading, error, searchResults, favorites, filters,
                   pending>>
    /\ Persisted

ClearBookingData ==
    /\ bookingData' = Null
    /\ lastCall' = [op |-> "clearBookingData"]
    /\ UNCHANGED <<exploreVars, pageVars>>
    /\ UNCHANGED <<hotels, loading, error, searchResults, favorites, filters,
                   pending>>
    /\ Persisted

\* The calls that are pending keep the order in which they were issued;
\* `newest` marks the one issued last of all.  The mark is bookkeeping of
\* the model: a call that is issued takes it from the calls before it.
Older(calls) == [i \in 1..Len(calls) |-> [calls[i] EXCEPT !.newest = FALSE]]

\* fetchHotels, up to its await: hotelStore.js 257-261
FetchHotelsStart ==
    /\ Len(pending) < MaxPending
    /\ loading' = TRUE
    /\ error' = NullString
    /\ pending' = Append(Older(pending),
                          [kind |-> "fetchHotels", newest |-> TRUE])
    /\ lastCall' = [op |-> "fetchHotels", phase |-> "started"]
    /\ UNCHANGED <<exploreVars, pageVars>>
    /\ UNCHANGED <<hotels, searchResults, favorites, bookingData, filters>>
    /\ Persisted

\* fetchHotelById(id), up to its await: hotelStore.js 271-274
FetchHotelByIdStart(id) ==
    /\ Len(pending) < MaxPending
    /\ loading' = TRUE
    /\ error' = NullString
    /\ pending' = Append(Older(pending),
                          [ kind |-> "fetchHotelById", id |-> id,
                            newest |-> TRUE ])
    /\ lastCall' = [op |-> "fetchHotelById", phase |-> "started"]
    /\ UNCHANGED <<exploreVars, pageVars>>
    /\ UNCHANGED <<hotels, searchResults, favorites, bookingData, filters>>
    /\ Persisted

RemoveAt(seq, i) == SubSeq(seq, 1, i - 1) \o SubSeq(seq, i + 1, Len(seq))

\* fetchHotels after its timer: hotelStore.js 265 (nothing in the try
\* block throws, so the catch of 266-268 is never entered)
FetchHotelsEnd(i) ==
    /\ i \in 1..Len(pending)
    /\ pending[i].kind = "fetchHotels"
    /\ hotels' = sampleHotels
    /\ loading' = FALSE
    /\ pending' = RemoveAt(pending, i)
    /\ lastCall' = [op |-> "fetchHotels", phase |-> "resolved"]
    /\ UNCHANGED <<exploreVars, pageVars>>
    /\ UNCHANGED <<error, searchResults, favorites, bookingData, filters>>
    /\ Persisted

\* hotelStore.js 279-280: set({ loading: false }); return hotel
FetchByIdFound(i) ==
    /\ loading' = FALSE
    /\ UNCHANGED error
    /\ lastCall' = [ op |-> "fetchHotelById", phase |-> "resolved",
                     id |-> pending[i].id ]

\* hotelStore.js 277, 281-284: the throw, the catch's set and the rethrow
FetchByIdMissing(i) ==
    /\ loading' = FALSE
    /\ error' = <<"H","o","t","e","l"," ","n","o","t"," ","f","o","u","n","d">>
    /\ lastCall' = [ op |-> "fetchHotelById", phase |-> "rejected",
                     id |-> pending[i].id ]

\* fetchHotelById after its timer: hotelStore.js 275-284
FetchHotelByIdEnd(i) ==
    /\ i \in 1..Len(pending)
    /\ pending[i].kind = "fetchHotelById"
    /\ IF getHotelById(hotels, pending[i].id) # Undefined
       THEN FetchByIdFound(i)
       ELSE FetchByIdMissing(i)
    /\ pending' = RemoveAt(pending, i)
    /\ UNCHANGED <<exploreVars, pageVars>>
    /\ UNCHANGED <<hotels, searchResults, favorites, bookingData, filters>>
    /\ Persisted

\* A page reload: the script state is gone (timers included), the store is
\* created again from its initial state (hotelStore.js 156-168) and the
\* persist middleware merges the parsed 'hotel-storage' entry over it
\* (hotelStore.js 287-293).
StoreRecreated ==
    /\ hotels' = sampleHotels
    /\ loading' = FALSE
    /\ error' = NullString
    /\ searchResults' = << >>
    /\ bookingData' = Null
    /\ favorites' = ParseFavorites(storage)
    /\ filters' = (IF "filters" \in DOMAIN storage
                   THEN ParseFilters(storage) ELSE DefaultFilters)
    /\ pending' = << >>

Reload ==
    /\ StoreRecreated
    /\ lastCall' = [op |-> "reload"]
    /\ UNCHANGED <<exploreVars, pageVars>>
    /\ Persisted

(***************************************************************************)
(* The store under its callers: any interleaving of the operations, with   *)
(* the arguments drawn from small sets                                     *)
(***************************************************************************)
\* ids the callers pass: a catalog hotel and one that is in no catalog
CallerHotelIds == {1, 4}

\* route parameters handed to fetchHotelById (HotelDetails passes the :id
\* segment, a string)
CallerRouteIds == { <<"1">>, <<"4">> }

StoreQueries == { <<"M","I","A","M","I">> }

\* partial filter objects given to setFilters
StoreFilterUpdates ==
    { [minRating |-> 45, location |-> <<"f","l">>, amenities |-> << <<"S","p","a">> >>],
      [minPrice |-> 250, maxPrice |-> 350],
      DefaultFilters }

\* a booking draft as HotelDetails builds it
SampleDraft ==
    [ hotelId |-> 1, hotelName |-> <<"G","r","a","n","d"," ","P","a","l","a","c","e"," ","H","o","t","e","l">>, guests |-> 2,
      totalPrice |-> 897 ]

StoreNext ==
    \/ \E q \in StoreQueries : SearchHotels(q, filters)
    \/ \E nf \in StoreFilterUpdates : SetFilters(nf)
    \/ ClearSearchResults
    \/ \E id \in CallerHotelIds : AddToFavorites(id)
    \/ \E id \in CallerHotelIds : RemoveFromFavorites(id)
    \/ \E id \in CallerHotelIds : IsFavorite(id)
    \/ SetBookingData(SampleDraft)
    \/ ClearBookingData
    \/ FetchHotelsStart
    \/ \E id \in CallerRouteIds : FetchHotelByIdStart(id)
    \/ \E i \in 1..Len(pending) : FetchHotelsEnd(i)
    \/ \E i \in 1..Len(pending) : FetchHotelByIdEnd(i)
    \/ Reload

StoreSpec == Init /\ [][StoreNext]_vars

\* the favourites operations on their own, over more ids
FavoriteIds == {1, 2, 3, 4}

FavoritesNext ==
    \/ \E id \in FavoriteIds : AddToFavorites(id)
    \/ \E id \in FavoriteIds : RemoveFromFavorites(id)
    \/ \E id \in FavoriteIds : IsFavorite(id)
    \/ Reload

FavoritesSpec == Init /\ [][FavoritesNext]_vars

(***************************************************************************)
(* The router table (App.jsx 20-38)                                        *)
(***************************************************************************)
StartsWith(s, prefix) ==
    Len(s) >= Len(prefix) /\ SubSeq(s, 1, Len(prefix)) = prefix

\* a dynamic segment: one non-empty path segment after the prefix
OneSegmentAfter(path, prefix) ==
    /\ StartsWith(path, prefix)
    /\ Len(path) > Len(prefix)
    /\ \A i \in (Len(prefix) + 1)..Len(path) : path[i] # "/"

\* a route table that also has a page for /services
RouteElementWithServices(path) ==
    IF path = <<"/">> THEN "Home"
    ELSE IF path = <<"/","a","b","o","u","t">> THEN "About"
    ELSE IF path = <<"/","s","e","r","v","i","c","e","s">> THEN "Services"
    ELSE IF path = <<"/","r","e","s","u","l","t","s">> THEN "SearchResults"
    ELSE "NotFound"

\* the element <Routes> renders for a path
RouteElement(path) ==
    IF path = <<"/">> THEN "Home"
    ELSE IF path = <<"/","a","b","o","u","t">> THEN "About"
    ELSE IF path = <<"/","c","o","n","t","a","c","t">> THEN "Contact"
    ELSE IF path = <<"/","t","e","a","m">> THEN "Team"
    ELSE IF path = <<"/","r","e","s","u","l","t","s">> THEN "SearchResults"
    ELSE IF OneSegmentAfter(path, <<"/","h","o","t","e","l","/">>) THEN "HotelDetails"
    ELSE IF path = <<"/","b","o","o","k","i","n","g">> THEN "BookingPage"
    ELSE IF OneSegmentAfter(path, <<"/","b","o","o","k","i","n","g","/">>) THEN "BookingPage"
    ELSE "NotFound"

\* location.pathname and location.search of a URL
RECURSIVE IndexOf(_, _)
IndexOf(s, ch) ==
    IF s = << >> THEN 0
    ELSE IF Head(s) = ch THEN 1
    ELSE LET rest == IndexOf(Tail(s), ch)
         IN  IF rest = 0 THEN 0 ELSE rest + 1

Pathname(url) ==
    LET q == IndexOf(url, "?")
    IN  IF q = 0 THEN url ELSE SubSeq(url, 1, q - 1)

LocationSearch(url) ==
    LET q == IndexOf(url, "?")
    IN  IF q = 0 THEN << >> ELSE SubSeq(url, q, Len(url))

\* the page <Routes> shows for the current location
RenderedPage == RouteElement(Pathname(route))

\* the Recommend page draws one card per entry of the recommendations it
\* finds in the location state, when the router renders it at all
RecommendCards ==
    IF RenderedPage = "Recommend" /\ navState # Null
    THEN Len(navState.recommendations)
    ELSE 0

(***************************************************************************)
(* ExploreSection (ExploreSection.jsx 185-308)                             *)
(***************************************************************************)
SelectDestinationMessage == <<"P","l","e","a","s","e"," ","s","e","l","e","c","t"," ","a"," ","d","e","s","t","i","n","a","t","i","o","n">>
BudgetOrderMessage == <<"M","i","n","i","m","u","m"," ","b","u","d","g","e","t"," ","s","h","o","u","l","d"," ","b","e"," ","l","e","s","s"," ","t","h","a","n"," ","m","a","x","i","m","u","m"," ","b","u","d","g","e","t">>
GenericErrorMessage == <<"F","a","i","l","e","d"," ","t","o"," ","g","e","t"," ","r","e","c","o","m","m","e","n","d","a","t","i","o","n","s","."," ","P","l","e","a","s","e"," ","t","r","y"," ","a","g","a","i","n",".">>
RecommendPath == <<"/","r","e","c","o","m","m","e","n","d">>

\* the section is rendered by Home (Home.jsx 139)
ExploreMounted == RenderedPage = "Home"

\* x || fallback for the result of parseInt: NaN and 0 are falsy
OrElse(parsed, fallback) ==
    IF parsed = << >> \/ parsed = <<0>> THEN fallback ELSE parsed[1]

\* the state a newly mounted section starts from (lines 186-198)
ExploreFresh ==
    /\ formData' = InitialFormData
    /\ selectedDates' = InitialDates
    /\ guests' = 1
    /\ isLoading' = FALSE
    /\ exploreError' = << >>

\* leaving Home discards the section: its state is gone, and the requests
\* it issued now belong to no mounted component
ExploreUnmount(reqs) ==
    /\ ExploreFresh
    /\ requests' = [i \in 1..Len(reqs) |-> [reqs[i] EXCEPT !.live = FALSE]]

\* handleInputChange('city', e.target.value): lines 224-229, 338-343
ChangeCity(value) ==
    /\ ExploreMounted /\ ~isLoading
    /\ formData' = [formData EXCEPT !.city = value]
    /\ lastEvent' = [kind |-> "input"]
    /\ UNCHANGED <<selectedDates, guests, isLoading, exploreError, requests,
                   route, navState>>
    /\ UNCHANGED <<storeVars, pageVars>>

\* line 395: handleInputChange('budget_min_inr', parseInt(value) || 1000)
ChangeBudgetMin(text) ==
    /\ ExploreMounted /\ ~isLoading
    /\ formData' =
         [formData EXCEPT !.budget_min_inr = OrElse(ParseInt(text), 1000)]
    /\ lastEvent' = [kind |-> "input"]
    /\ UNCHANGED <<selectedDates, guests, isLoading, exploreError, requests,
                   route, navState>>
    /\ UNCHANGED <<storeVars, pageVars>>

\* line 412: handleInputChange('budget_max_inr', parseInt(value) || 10000)
ChangeBudgetMax(text) ==
    /\ ExploreMounted /\ ~isLoading
    /\ formData' =
         [formData EXCEPT !.budget_max_inr = OrElse(ParseInt(text), 10000)]
    /\ lastEvent' = [kind |-> "input"]
    /\ UNCHANGED <<selectedDates, guests, isLoading, exploreError, requests,
                   route, navState>>
    /\ UNCHANGED <<storeVars, pageVars>>

\* line 471: setSelectedDates(prev => ({ ...prev, checkin: value }))
ChangeCheckin(text) ==
    /\ ExploreMounted /\ ~isLoading
    /\ selectedDates' = [selectedDates EXCEPT !.checkin = text]
    /\ lastEvent' = [kind |-> "input"]
    /\ UNCHANGED <<formData, guests, isLoading, exploreError, requests,
                   route, navState>>
    /\ UNCHANGED <<storeVars, pageVars>>

\* line 498: setGuests(parseInt(value)) on one of the numbered options
ChangeGuests(text) ==
    /\ ExploreMounted /\ ~isLoading
    /\ guests' = ParseInt(text)[1]
    /\ lastEvent' = [kind |-> "input"]
    /\ UNCHANGED <<formData, selectedDates, isLoading, exploreError, requests,
                   route, navState>>
    /\ UNCHANGED <<storeVars, pageVars>>

\* lines 288-296: what navigate() is given besides the results
SearchParamsSnapshot ==
    [ formData |-> formData, guests |-> guests, dates |-> selectedDates ]

\* lines 256-267: the body of the POST
RequestBody ==
    [ user_id |-> 1,
      user_preferences |->
        [ city |-> formData.city,
          preferred_amenities |-> formData.preferred_amenities,
          budget_min_inr |-> formData.budget_min_inr,
          budget_max_inr |-> formData.budget_max_inr,
          min_star_rating |-> formData.min_star_rating ],
      top_n |-> formData.top_n,
      explain |-> TRUE ]

\* a budget check that lets equal bounds through
BudgetsOutOfOrderStrict == formData.budget_min_inr > formData.budget_max_inr

\* line 247
BudgetsOutOfOrder == formData.budget_min_inr >= formData.budget_max_inr

\* line 514: disabled={isLoading || !formData.city}
SearchButtonDisabled == isLoading \/ Len(formData.city) = 0

\* handleSearch up to its await (lines 240-277)
HandleSearch ==
    IF Len(formData.city) = 0
    THEN /\ exploreError' = SelectDestinationMessage
         /\ lastEvent' = [kind |-> "submit", outcome |-> "no city"]
         /\ UNCHANGED <<isLoading, requests>>
    ELSE IF BudgetsOutOfOrder
    THEN /\ exploreError' = BudgetOrderMessage
         /\ lastEvent' = [kind |-> "submit", outcome |-> "budget"]
         /\ UNCHANGED <<isLoading, requests>>
    ELSE /\ Len(requests) < MaxRequests
         /\ isLoading' = TRUE
         /\ exploreError' = << >>
         /\ requests' = Append(requests,
                [ live |-> TRUE, body |-> RequestBody,
                  searchParams |-> SearchParamsSnapshot ])
         /\ lastEvent' = [kind |-> "submit", outcome |-> "sent"]

\* The visitor presses the search button (lines 511-515).  A disabled
\* button dispatches no click, so handleSearch does not run.
ClickSearch ==
    /\ ExploreMounted
    /\ IF SearchButtonDisabled
       THEN /\ lastEvent' = [kind |-> "submit", outcome |-> "disabled"]
            /\ UNCHANGED <<isLoading, exploreError, requests>>
       ELSE HandleSearch
    /\ UNCHANGED <<formData, selectedDates, guests, route, navState>>
    /\ UNCHANGED <<storeVars, pageVars>>

(***************************************************************************)
(* How the POST can end                                                    *)
(***************************************************************************)
Result1 == [hotel_id |-> 101, combined_score |-> 87]
Result2 == [hotel_id |-> 102, combined_score |-> 64]

\* results: << >> when the body has no such field, <<list>> when it has
Bodies ==
    { [status |-> "success", results |-> << <<Result1, Result2>> >>],
      [status |-> "success", results |-> << <<Result1>> >>],
      [status |-> "success", results |-> << << >> >>],
      [status |-> "success", results |-> << >>],
      [status |-> "error", results |-> << <<Result1>> >>] }

Responses ==
    { [kind |-> "network error"] }
    \cup { [kind |-> "http", ok |-> FALSE, json |-> "none"] }
    \cup { [kind |-> "http", ok |-> TRUE, json |-> "malformed"] }
    \cup { [kind |-> "http", ok |-> TRUE, json |-> "parsed", body |-> b] :
             b \in Bodies }

\* line 286 without the test of the status field
HasUsableResultsIgnoringStatus(resp) ==
    /\ resp.kind = "http" /\ resp.ok /\ resp.json = "parsed"
    /\ Len(resp.body.results) = 1

\* lines 271-286: fetch resolved, response.ok, the body parsed, and
\* data.status === 'success' && data.results (any array is truthy)
HasUsableResults(resp) ==
    /\ resp.kind = "http" /\ resp.ok /\ resp.json = "parsed"
    /\ resp.body.status = "success"
    /\ Len(resp.body.results) = 1

\* a finally block that is missing
FinallyLeavesLoading(live) == UNCHANGED isLoading

\* lines 305-307, on a component that stays mounted
FinallyClearsLoading(live) ==
    IF live THEN isLoading' = FALSE ELSE UNCHANGED isLoading

\* handleSearch after its await (lines 279-307) for request i.  navigate()
\* acts on the router whether or not the section is still mounted; the
\* state setters act only on the component that issued the request.
Deliver(i, resp) ==
    /\ i \in 1..Len(requests)
    /\ lastEvent' = [ kind |-> "response", response |-> resp,
                      live |-> requests[i].live ]
    /\ IF HasUsableResults(resp)
       THEN /\ route' = RecommendPath
            /\ navState' = [ recommendations |-> resp.body.results[1],
                             searchParams |-> requests[i].searchParams ]
            /\ IF RouteElement(RecommendPath) # "Home"
               THEN ExploreUnmount(RemoveAt(requests, i))
               ELSE /\ requests' = RemoveAt(requests, i)
                    /\ FinallyClearsLoading(requests[i].live)
                    /\ UNCHANGED <<formData, selectedDates, guests,
                                   exploreError>>
       ELSE /\ UNCHANGED <<route, navState, formData, selectedDates, guests>>
            /\ requests' = RemoveAt(requests, i)
            /\ exploreError' = (IF requests[i].live THEN GenericErrorMessage
                                ELSE exploreError)
            /\ FinallyClearsLoading(requests[i].live)
    /\ UNCHANGED <<storeVars, pageVars>>

\* a plain <Link> or navigate() to a path (Home.jsx 344, the Not Found
\* page's Home link, the Recommend page's "Back to Search")
FollowLink(to) ==
    /\ route' = to
    /\ navState' = Null
    /\ lastEvent' = [kind |-> "navigate"]
    /\ IF ExploreMounted /\ RouteElement(Pathname(to)) # "Home"
       THEN ExploreUnmount(requests)
       ELSE UNCHANGED <<formData, selectedDates, guests, isLoading,
                        exploreError, requests>>
    /\ UNCHANGED <<storeVars, pageVars>>

\* what the visitor can enter
CityChoices == { << >>, <<"G","o","a">> }
BudgetMinTexts == { << >>, <<"1","0","0","0","0">>, <<"2","0","0","0","0">> }
BudgetMaxTexts == { << >>, <<"1","0","0","0","0">> }
CheckinTexts == { <<"2","0","2","5","-","0","6","-","0","1">> }
GuestChoices == { <<"1">>, <<"2">> }
LinkTargets == { <<"/">>, <<"/","a","b","o","u","t">> }

ExploreNext ==
    \/ \E v \in CityChoices : ChangeCity(v)
    \/ \E t \in BudgetMinTexts : ChangeBudgetMin(t)
    \/ \E t \in BudgetMaxTexts : ChangeBudgetMax(t)
    \/ \E t \in CheckinTexts : ChangeCheckin(t)
    \/ \E t \in GuestChoices : ChangeGuests(t)
    \/ ClickSearch
    \/ \E i \in 1..Len(requests), r \in Responses : Deliver(i, r)
    \/ \E to \in LinkTargets : FollowLink(to)

ExploreSpec == Init /\ [][ExploreNext]_vars

\* every request that was sent is answered or fails
ExploreFairSpec ==
    ExploreSpec /\ WF_vars(\E i \in 1..Len(requests), r \in Responses :
                               Deliver(i, r))

(***************************************************************************)
(* Page-availability registry (utils/pageAvailability.js)                  *)
(***************************************************************************)
\* pageAvailability[path]: << >> for undefined, <<b>> for the boolean b
TableLookup(table, path) ==
    LET found == SelectSeq(table, LAMBDA e : e.path = path)
    IN  IF Len(found) = 0 THEN << >> ELSE <<found[Len(found)].available>>

\* a lookup that takes a missing entry for an available page
isPageAvailableUnlessListed(path) ==
    TableLookup(pageAvailability, path) # <<FALSE>>

\* lines 41-43: pageAvailability[path] === true
isPageAvailable(path) ==
    TableLookup(pageAvailability, path) = <<TRUE>>

PathsOf(entries) == [i \in 1..Len(entries) |-> entries[i].path]

\* lines 46-50
getAvailablePages ==
    PathsOf(SelectSeq(pageAvailability, LAMBDA e : e.available))

\* lines 53-57
getUnavailablePages ==
    PathsOf(SelectSeq(pageAvailability, LAMBDA e : ~e.available))

\* the value of pageAvailability[to] used as a condition
Truthy(looked) == looked = <<TRUE>>

(***************************************************************************)
(* URL query strings                                                       *)
(***************************************************************************)
IsSpace(ch) == ch = " "

\* String.prototype.trim for the blanks that occur here
RECURSIVE TrimStart(_)
TrimStart(s) ==
    IF s # << >> /\ IsSpace(Head(s)) THEN TrimStart(Tail(s)) ELSE s

RECURSIVE TrimEnd(_)
TrimEnd(s) ==
    IF s # << >> /\ IsSpace(s[Len(s)])
    THEN TrimEnd(SubSeq(s, 1, Len(s) - 1)) ELSE s

Trim(s) == TrimEnd(TrimStart(s))

\* encodeURIComponent, for letters, digits and the reserved characters
\* that occur here
PercentCode(ch) ==
    IF ch = " " THEN <<"%", "2", "0">>
    ELSE IF ch = "&" THEN <<"%", "2", "6">>
    ELSE IF ch = "+" THEN <<"%", "2", "B">>
    ELSE IF ch = "=" THEN <<"%", "3", "D">>
    ELSE IF ch = "?" THEN <<"%", "3", "F">>
    ELSE IF ch = "%" THEN <<"%", "2", "5">>
    ELSE <<ch>>

RECURSIVE EncodeURIComponent(_)
EncodeURIComponent(s) ==
    IF s = << >> THEN << >>
    ELSE PercentCode(Head(s)) \o EncodeURIComponent(Tail(s))

PercentDecoded(hex) ==
    IF hex = <<"2", "0">> THEN " "
    ELSE IF hex = <<"2", "6">> THEN "&"
    ELSE IF hex = <<"2", "B">> THEN "+"
    ELSE IF hex = <<"3", "D">> THEN "="
    ELSE IF hex = <<"3", "F">> THEN "?"
    ELSE "%"

\* URLSearchParams decoding of a value: '+' is a blank, %XX is a character
RECURSIVE DecodeQueryValue(_)
DecodeQueryValue(s) ==
    IF s = << >> THEN << >>
    ELSE IF Head(s) = "+" THEN <<" ">> \o DecodeQueryValue(Tail(s))
    ELSE IF Head(s) = "%" /\ Len(s) >= 3
         THEN <<PercentDecoded(SubSeq(s, 2, 3))>>
              \o DecodeQueryValue(SubSeq(s, 4, Len(s)))
    ELSE <<Head(s)>> \o DecodeQueryValue(Tail(s))

\* searchParams.get('q') || '' on the Search Results page (lines 8-9), for
\* a search part that is empty or starts with ?q=
QueryParamQ(url) ==
    LET srch == LocationSearch(url)
    IN  IF StartsWith(srch, <<"?","q","=">>)
        THEN LET raw == SubSeq(srch, 4, Len(srch))
                 amp == IndexOf(raw, "&")
             IN  DecodeQueryValue(IF amp = 0 THEN raw
                                  ELSE SubSeq(raw, 1, amp - 1))
        ELSE << >>

(***************************************************************************)
(* Header (components/Header.jsx, both variants)                           *)
(***************************************************************************)
NotFoundPath == <<"/","4","0","4">>

sectionVars == <<formData, selectedDates, guests, isLoading, exploreError,
                 requests>>

\* navigate(to) or a <Link to>: the location changes, and a section or
\* page that is no longer rendered loses its state
RouterNavigate(to) ==
    /\ route' = to
    /\ navState' = Null
    /\ IF ExploreMounted /\ RouteElement(Pathname(to)) # "Home"
       THEN ExploreUnmount(requests)
       ELSE UNCHANGED <<formData, selectedDates, guests, isLoading,
                        exploreError, requests>>

\* CustomLink: handleClick cancels the click and navigates to /404 when
\* pageAvailability[to] is falsy; otherwise the <Link> goes to its `to`
\* attribute, pageAvailability[to] ? to : '/404'
CustomLinkDestination(to) ==
    IF ~Truthy(TableLookup(pageAvailability, to)) THEN NotFoundPath
    ELSE IF Truthy(TableLookup(pageAvailability, to)) THEN to
    ELSE NotFoundPath

\* a ComingSoonLink that never looks at the table
ComingSoonLinkUngated(to) == to

\* ComingSoonLink: a span whose click navigates to /404 when the target is
\* not available, a CustomLink otherwise
ComingSoonLinkDestination(to) ==
    IF ~Truthy(TableLookup(pageAvailability, to)) THEN NotFoundPath
    ELSE CustomLinkDestination(to)

\* the links of the two Header variants: where they are, which component
\* renders them and their target
HeaderLinks ==
    { [menu |-> "logo", component |-> "CustomLink", to |-> <<"/">>],
      [menu |-> "desktop", component |-> "CustomLink", to |-> <<"/">>],
      [menu |-> "desktop", component |-> "ComingSoonLink", to |-> <<"/","s","e","r","v","i","c","e","s">>],
      [menu |-> "desktop", component |-> "ComingSoonLink", to |-> <<"/","a","b","o","u","t">>],
      [menu |-> "desktop", component |-> "ComingSoonLink", to |-> <<"/","f","a","c","i","l","i","t","i","e","s">>],
      [menu |-> "desktop", component |-> "ComingSoonLink", to |-> <<"/","c","o","n","t","a","c","t">>],
      [menu |-> "desktop", component |-> "ComingSoonLink", to |-> <<"/","t","e","a","m">>],
      [menu |-> "mobile", component |-> "CustomLink", to |-> <<"/">>],
      [menu |-> "mobile", component |-> "ComingSoonLink", to |-> <<"/","s","e","r","v","i","c","e","s">>],
      [menu |-> "mobile", component |-> "ComingSoonLink", to |-> <<"/","a","b","o","u","t">>],
      [menu |-> "mobile", component |-> "ComingSoonLink", to |-> <<"/","f","a","c","i","l","i","t","i","e","s">>],
      [menu |-> "mobile", component |-> "ComingSoonLink", to |-> <<"/","c","o","n","t","a","c","t">>],
      [menu |-> "mobile", component |-> "ComingSoonLink", to |-> <<"/","t","e","a","m">>] }

\* a click on a Header link; the links of the mobile panel exist while the
\* panel is open and close it through their onClick
ClickHeaderLink(link) ==
    /\ link.menu = "mobile" => isMenuOpen
    /\ RouterNavigate(IF link.component = "CustomLink"
                      THEN CustomLinkDestination(link.to)
                      ELSE ComingSoonLinkDestination(link.to))
    /\ isMenuOpen' = (IF link.menu = "mobile" THEN FALSE ELSE isMenuOpen)
    /\ lastEvent' = [kind |-> "header link", link |-> link]
    /\ UNCHANGED <<pageAvailability, resultsVars, isSearchOpen, searchQuery, stars>>
    /\ UNCHANGED <<storeVars, detailsVars>>

\* the menu button: setIsMenuOpen(!isMenuOpen)
ToggleMenu ==
    /\ isMenuOpen' = ~isMenuOpen
    /\ lastEvent' = [kind |-> "menu toggle"]
    /\ UNCHANGED <<pageAvailability, resultsVars, isSearchOpen, searchQuery, stars>>
    /\ UNCHANGED <<sectionVars, route, navState>>
    /\ UNCHANGED <<storeVars, detailsVars>>

\* the search button: disabled while /search is not available, otherwise
\* setIsSearchOpen(!isSearchOpen)
ToggleSearch ==
    /\ Truthy(TableLookup(pageAvailability, <<"/","s","e","a","r","c","h">>))
    /\ isSearchOpen' = ~isSearchOpen
    /\ lastEvent' = [kind |-> "search toggle"]
    /\ UNCHANGED <<pageAvailability, resultsVars, isMenuOpen, searchQuery, stars>>
    /\ UNCHANGED <<sectionVars, route, navState>>
    /\ UNCHANGED <<storeVars, detailsVars>>

\* typing in the search bar, or one of the suggestion buttons:
\* setSearchQuery(value)
TypeSearchQuery(text) ==
    /\ isSearchOpen
    /\ searchQuery' = text
    /\ lastEvent' = [kind |-> "search input"]
    /\ UNCHANGED <<pageAvailability, resultsVars, isMenuOpen, isSearchOpen, stars>>
    /\ UNCHANGED <<sectionVars, route, navState>>
    /\ UNCHANGED <<storeVars, detailsVars>>

SearchPath == <<"/","s","e","a","r","c","h">>

\* handleSearch of the Header: the form of the open search bar is submitted
SubmitHeaderSearch ==
    /\ isSearchOpen
    /\ lastEvent' = [kind |-> "header search", text |-> searchQuery]
    /\ IF Trim(searchQuery) # << >>
       THEN /\ RouterNavigate(
                 IF Truthy(TableLookup(pageAvailability, SearchPath))
                 THEN SearchPath \o <<"?","q","=">>
                        \o EncodeURIComponent(Trim(searchQuery))
                 ELSE NotFoundPath)
            /\ searchQuery' = << >>
            /\ isSearchOpen' = FALSE
       ELSE UNCHANGED <<sectionVars, route, navState, searchQuery,
                        isSearchOpen>>
    /\ UNCHANGED <<pageAvailability, resultsVars, isMenuOpen, stars>>
    /\ UNCHANGED <<storeVars, detailsVars>>

\* handleBookNow of the Header; the button is disabled while /booking is
\* not available
HeaderBookNow ==
    /\ Truthy(TableLookup(pageAvailability, <<"/","b","o","o","k","i","n","g">>))
    /\ RouterNavigate(<<"/","b","o","o","k","i","n","g">>)
    /\ lastEvent' = [kind |-> "header book now"]
    /\ UNCHANGED <<pageAvailability, resultsVars, isMenuOpen, isSearchOpen, searchQuery,
                   stars>>
    /\ UNCHANGED <<storeVars, detailsVars>>

\* the "View all" link of the Featured Section on Home
\* (FeaturedSection.jsx 77-84): <Link to="/search">
ViewAllPath == <<"/","s","e","a","r","c","h">>

FollowViewAll ==
    /\ RenderedPage = "Home"
    /\ RouterNavigate(ViewAllPath)
    /\ lastEvent' = [kind |-> "view all"]
    /\ UNCHANGED pageVars
    /\ UNCHANGED storeVars

(***************************************************************************)
(* Not Found page                                                          *)
(***************************************************************************)
\* A visitor on the Not Found page who wants to search for a text.  The
\* page has no input to take the text (the form of lines 146-176 is
\* commented out); its one search control is <Link to="/search">.
NotFoundSearchLink(wanted) ==
    /\ RenderedPage = "NotFound"
    /\ RouterNavigate(SearchPath)
    /\ lastEvent' = [kind |-> "not found search", wanted |-> wanted]
    /\ UNCHANGED pageVars
    /\ UNCHANGED storeVars

\* the Home link of the Not Found page: <Link to="/">
NotFoundHomeLink ==
    /\ RenderedPage = "NotFound"
    /\ RouterNavigate(<<"/">>)
    /\ lastEvent' = [kind |-> "not found home"]
    /\ UNCHANGED pageVars
    /\ UNCHANGED storeVars

(***************************************************************************)
(* Direct entry of a URL: the application is loaded afresh at that path    *)
(***************************************************************************)
EnterAddress(url) ==
    /\ StoreRecreated
    /\ lastCall' = [op |-> "reload"]
    /\ ExploreFresh
    /\ requests' = << >>
    /\ route' = url
    /\ navState' = Null
    /\ lastEvent' = [kind |-> "address", url |-> url]
    /\ UNCHANGED <<pageAvailability, resultsVars, stars>>
    /\ isMenuOpen' = FALSE
    /\ isSearchOpen' = FALSE
    /\ searchQuery' = << >>
    /\ UNCHANGED detailsVars
    /\ Persisted

(***************************************************************************)
(* Calls of the registry helpers                                           *)
(***************************************************************************)
CallIsPageAvailable(path) ==
    /\ lastEvent' = [ kind |-> "isPageAvailable", path |-> path,
                      ret |-> isPageAvailable(path) ]
    /\ UNCHANGED <<sectionVars, route, navState>>
    /\ UNCHANGED <<storeVars, pageVars>>

CallGetAvailablePages ==
    /\ lastEvent' = [kind |-> "getAvailablePages", ret |-> getAvailablePages]
    /\ UNCHANGED <<sectionVars, route, navState>>
    /\ UNCHANGED <<storeVars, pageVars>>

CallGetUnavailablePages ==
    /\ lastEvent' = [ kind |-> "getUnavailablePages",
                      ret |-> getUnavailablePages ]
    /\ UNCHANGED <<sectionVars, route, navState>>
    /\ UNCHANGED <<storeVars, pageVars>>

(***************************************************************************)
(* The layout shell under a visitor                                        *)
(***************************************************************************)
HeaderSearchTexts == { <<"g","o","a">>, <<" ","g","o","a"," ">>, <<"G","o","a"," ","R","e","s","o","r","t","s">>, <<" "," ">> }

NotFoundSearchTexts == { <<"g","o","a">> }

\* a registered route, pages the table marks unfinished, and paths that
\* neither the table nor the router knows
AddressChoices ==
    { <<"/">>, <<"/","r","e","s","u","l","t","s","?","q","=","g","o","a">>, <<"/","s","e","r","v","i","c","e","s">>, <<"/","a","d","m","i","n","/","h","o","t","e","l","s">>, <<"/","s","e","a","r","c","h">>,
      <<"/","n","o","w","h","e","r","e">> }

ProbePaths ==
    Range(PathsOf(pageAvailabilityTable)) \cup { <<"/","r","e","s","u","l","t","s">>, <<"/","n","o","w","h","e","r","e">> }

ShellNext ==
    \/ \E link \in HeaderLinks : ClickHeaderLink(link)
    \/ ToggleMenu
    \/ ToggleSearch
    \/ \E t \in HeaderSearchTexts : TypeSearchQuery(t)
    \/ SubmitHeaderSearch
    \/ HeaderBookNow
    \/ \E t \in NotFoundSearchTexts : NotFoundSearchLink(t)
    \/ NotFoundHomeLink
    \/ FollowViewAll
    \/ \E url \in AddressChoices : EnterAddress(url)

ShellSpec == Init /\ [][ShellNext]_vars

\* the registry helpers called at any moment of the above
RegistryNext ==
    \/ ShellNext
    \/ \E path \in ProbePaths : CallIsPageAvailable(path)
    \/ CallGetAvailablePages
    \/ CallGetUnavailablePages

RegistrySpec == Init /\ [][RegistryNext]_vars
(***************************************************************************)
(* Hotel Details page, store-backed (pages/HotelDetails.jsx 15-495)        *)
(***************************************************************************)
\* new Date('YYYY-MM-DD'): midnight UTC of that civil date.  Times are
\* held in hours since the epoch and not in milliseconds, which do not fit
\* the integers of the checker; a day is then 24 and not 1000*60*60*24.
DaysFromCivil(y, m, d) ==
    LET yy == IF m <= 2 THEN y - 1 ELSE y
        era == yy \div 400
        yoe == yy - era * 400
        mp == IF m > 2 THEN m - 3 ELSE m + 9
        doy == (153 * mp + 2) \div 5 + d - 1
        doe == yoe * 365 + yoe \div 4 - yoe \div 100 + doy
    IN  era * 146097 + doe - 719468

DateHours(text) ==
    DaysFromCivil(DigitsValue(SubSeq(text, 1, 4)),
                  DigitsValue(SubSeq(text, 6, 7)),
                  DigitsValue(SubSeq(text, 9, 10))) * 24

\* Math.ceil(a / b) for b > 0
CeilDiv(a, b) == -((-a) \div b)

\* lines 107-113
calculateNights ==
    IF checkIn = << >> \/ checkOut = << >> THEN 0
    ELSE CeilDiv(DateHours(checkOut) - DateHours(checkIn), 24)

\* a total computed from the hotel's headline price
calculateTotalPriceHeadline ==
    IF checkIn = << >> \/ checkOut = << >> \/ detailsHotel = Null THEN 0
    ELSE CeilDiv(DateHours(checkOut) - DateHours(checkIn), 24)
           * detailsHotel.price

\* lines 97-105; selectedRoomType is a 0-based index
calculateTotalPrice ==
    IF checkIn = << >> \/ checkOut = << >> \/ detailsHotel = Null THEN 0
    ELSE CeilDiv(DateHours(checkOut) - DateHours(checkIn), 24)
           * detailsHotel.roomTypes[selectedRoomType + 1].price

\* line 318: hotel.roomTypes[selectedRoomType].price of an index past the
\* list reads a property of undefined; the render throws and, there being
\* no error boundary, React takes the whole tree down
DetailsRenderThrows ==
    /\ RenderedPage = "HotelDetails"
    /\ ~loading
    /\ error = NullString
    /\ detailsHotel # Null
    /\ selectedRoomType >= Len(detailsHotel.roomTypes)

\* the page body is rendered: not the loading, error or no-hotel returns of
\* lines 171-214
DetailsShown ==
    /\ RenderedPage = "HotelDetails"
    /\ ~loading
    /\ error = NullString
    /\ detailsHotel # Null
    /\ ~DetailsRenderThrows

HotelPath(idText) == <<"/","h","o","t","e","l","/">> \o idText

\* which of the returns of lines 171-214 and 219 draws the page
DetailsPanel ==
    IF loading THEN "loading"
    ELSE IF error # NullString THEN "error"
    ELSE IF detailsHotel = Null THEN "no hotel"
    ELSE "details"

\* the id of the route /hotel/:id (line 16)
RouteHotelId == SubSeq(Pathname(route), Len(HotelPath(<< >>)) + 1,
                       Len(Pathname(route)))

\* the state a newly mounted page starts from (lines 33-38)
DetailsFresh ==
    /\ currentImageIndex' = 0
    /\ selectedRoomType' = 0
    /\ checkIn' = << >>
    /\ checkOut' = << >>
    /\ detailsGuests' = 2

\* A <Link to={`/hotel/${id}`}> followed from another page: the page is
\* mounted and loadHotel runs (lines 40-67) up to its await.
OpenHotel(idText) ==
    /\ RenderedPage # "HotelDetails"
    /\ RouterNavigate(HotelPath(idText))
    /\ DetailsFresh
    /\ lastEvent' = [kind |-> "open hotel", id |-> idText]
    /\ IF getHotelById(hotels, idText) # Undefined
       THEN /\ detailsHotel' = getHotelById(hotels, idText)
            /\ UNCHANGED <<loading, error, pending, lastCall>>
       ELSE /\ Len(pending) < MaxPending
            /\ detailsHotel' = Null
            /\ loading' = TRUE
            /\ error' = NullString
            /\ pending' = Append(Older(pending),
                                 [ kind |-> "fetchHotelById",
                                   id |-> idText,
                                   caller |-> "HotelDetails",
                                   newest |-> TRUE ])
            /\ lastCall' = [op |-> "fetchHotelById", phase |-> "started"]
    /\ UNCHANGED <<hotels, searchResults, favorites, bookingData, filters>>
    /\ UNCHANGED <<pageAvailability, resultsVars, headerVars, stars>>
    /\ Persisted

\* a catch block that does nothing
LoadHotelCatchSwallows ==
    UNCHANGED <<route, navState, sectionVars>>

\* lines 58-60: catch (err) { navigate('/404') }
LoadHotelCatch == RouterNavigate(NotFoundPath)

\* fetchHotelById after its timer (hotelStore.js 275-284) and the rest of
\* loadHotel (lines 56-60).  The setters of a page that was left are
\* no-ops; navigate() acts all the same.
DetailsFetchSettles(i) ==
    /\ i \in 1..Len(pending)
    /\ pending[i].kind = "fetchHotelById"
    /\ pending' = RemoveAt(pending, i)
    /\ IF getHotelById(hotels, pending[i].id) # Undefined
       THEN /\ FetchByIdFound(i)
            /\ detailsHotel' =
                 (IF route = HotelPath(pending[i].id)
                  THEN getHotelById(hotels, pending[i].id)
                  ELSE detailsHotel)
            /\ lastEvent' = [ kind |-> "details fetch",
                              id |-> pending[i].id,
                              outcome |-> "resolved" ]
            /\ UNCHANGED <<route, navState, sectionVars>>
            /\ UNCHANGED <<currentImageIndex, selectedRoomType, checkIn,
                           checkOut, detailsGuests>>
       ELSE /\ FetchByIdMissing(i)
            /\ LoadHotelCatch
            /\ detailsHotel' = Null
            /\ DetailsFresh
            /\ lastEvent' = [ kind |-> "details fetch",
                              id |-> pending[i].id,
                              outcome |-> "rejected" ]
    /\ UNCHANGED <<hotels, searchResults, favorites, bookingData, filters>>
    /\ UNCHANGED <<pageAvailability, resultsVars, headerVars, stars>>
    /\ Persisted

\* the breadcrumb's <Link to="/"> (line 225), "Back to Home" (205-210) of
\* the page without a hotel, or the Header's Home link while the page
\* shows its spinner: the page is unmounted
LeaveDetails ==
    /\ RenderedPage = "HotelDetails"
    /\ ~DetailsRenderThrows
    /\ RouterNavigate(<<"/">>)
    /\ detailsHotel' = Null
    /\ DetailsFresh
    /\ lastEvent' = [kind |-> "leave details"]
    /\ UNCHANGED <<pageAvailability, resultsVars, headerVars, stars>>
    /\ UNCHANGED storeVars

\* what stays as it is under a control of the rendered page
DetailsControlFrame ==
    /\ UNCHANGED <<detailsHotel, route, navState, sectionVars>>
    /\ UNCHANGED <<pageAvailability, resultsVars, headerVars, stars>>
    /\ UNCHANGED storeVars

\* lines 412-416 and 425-429: setCheckIn / setCheckOut
SetCheckIn(text) ==
    /\ DetailsShown
    /\ checkIn' = text
    /\ lastEvent' = [kind |-> "details input", field |-> "checkIn"]
    /\ UNCHANGED <<currentImageIndex, selectedRoomType, checkOut,
                   detailsGuests>>
    /\ DetailsControlFrame

SetCheckOut(text) ==
    /\ DetailsShown
    /\ checkOut' = text
    /\ lastEvent' = [kind |-> "details input", field |-> "checkOut"]
    /\ UNCHANGED <<currentImageIndex, selectedRoomType, checkIn,
                   detailsGuests>>
    /\ DetailsControlFrame

\* lines 438-448: setGuests(parseInt(value)) on one of the options 1..6
SetDetailsGuests(text) ==
    /\ DetailsShown
    /\ detailsGuests' = ParseInt(text)[1]
    /\ lastEvent' = [kind |-> "details input", field |-> "guests"]
    /\ UNCHANGED <<currentImageIndex, selectedRoomType, checkIn, checkOut>>
    /\ DetailsControlFrame

\* line 339: a click on the room type card drawn at `index`
SelectRoomType(index) ==
    /\ DetailsShown
    /\ index \in 0..(Len(detailsHotel.roomTypes) - 1)
    /\ selectedRoomType' = index
    /\ lastEvent' = [kind |-> "details input", field |-> "roomType"]
    /\ UNCHANGED <<currentImageIndex, checkIn, checkOut, detailsGuests>>
    /\ DetailsControlFrame

\* a next that runs off the end
NextIndexNoWrap(prev, n) == prev + 1

\* lines 117-119
NextIndex(prev, n) == IF prev = n - 1 THEN 0 ELSE prev + 1

\* lines 125-127
PrevIndex(prev, n) == IF prev = 0 THEN n - 1 ELSE prev - 1

\* lines 115-121; the button is drawn for more than one image (266)
NextImage ==
    /\ DetailsShown
    /\ Len(detailsHotel.images) > 1
    /\ currentImageIndex' =
         NextIndex(currentImageIndex, Len(detailsHotel.images))
    /\ lastEvent' = [kind |-> "image", control |-> "next"]
    /\ UNCHANGED <<selectedRoomType, checkIn, checkOut, detailsGuests>>
    /\ DetailsControlFrame

\* lines 123-129
PrevImage ==
    /\ DetailsShown
    /\ Len(detailsHotel.images) > 1
    /\ currentImageIndex' =
         PrevIndex(currentImageIndex, Len(detailsHotel.images))
    /\ lastEvent' = [kind |-> "image", control |-> "previous"]
    /\ UNCHANGED <<selectedRoomType, checkIn, checkOut, detailsGuests>>
    /\ DetailsControlFrame

\* lines 285-293: the indicator drawn for image `index`
ClickIndicator(index) ==
    /\ DetailsShown
    /\ index \in 0..(Len(detailsHotel.images) - 1)
    /\ currentImageIndex' = index
    /\ lastEvent' = [kind |-> "image", control |-> "indicator"]
    /\ UNCHANGED <<selectedRoomType, checkIn, checkOut, detailsGuests>>
    /\ DetailsControlFrame

\* the Book Now button that is always enabled
BookNowAlwaysEnabled == FALSE

\* line 477: disabled={!checkIn || !checkOut}
BookNowDisabled == checkIn = << >> \/ checkOut = << >>

\* lines 71-79
BookingDraft ==
    [ hotelId |-> detailsHotel.id,
      hotelName |-> detailsHotel.name,
      roomType |-> detailsHotel.roomTypes[selectedRoomType + 1],
      checkIn |-> checkIn,
      checkOut |-> checkOut,
      guests |-> detailsGuests,
      totalPrice |-> calculateTotalPrice ]

BookingPath(id) == <<"/","b","o","o","k","i","n","g","/">> \o NatToText(id)

\* handleBooking (lines 69-85) behind its button (475-481):
\* setBookingData(bookingData), then navigate to /booking/<id>, which
\* unmounts the page
HandleBooking ==
    /\ DetailsShown
    /\ ~BookNowDisabled
    /\ bookingData' = BookingDraft
    /\ lastCall' = [op |-> "setBookingData"]
    /\ RouterNavigate(BookingPath(detailsHotel.id))
    /\ detailsHotel' = Null
    /\ DetailsFresh
    /\ lastEvent' = [kind |-> "book now", replaced |-> bookingData # Null]
    /\ UNCHANGED <<hotels, loading, error, searchResults, favorites,
                   filters, pending>>
    /\ UNCHANGED <<pageAvailability, resultsVars, headerVars, stars>>
    /\ Persisted

\* the Header's Home link on the Booking page
LeaveBooking ==
    /\ RenderedPage = "BookingPage"
    /\ RouterNavigate(<<"/">>)
    /\ lastEvent' = [kind |-> "leave booking"]
    /\ UNCHANGED pageVars
    /\ UNCHANGED storeVars

(***************************************************************************)
(* The page with a hotel of the catalog: price and booking                 *)
(***************************************************************************)
BookingHotelIds == { <<"1">>, <<"2">> }
CheckInTexts == { << >>, <<"2","0","2","5","-","0","6","-","0","1">> }
CheckOutTexts == { << >>, <<"2","0","2","5","-","0","6","-","0","4">>, <<"2","0","2","5","-","0","5","-","3","0">> }
DetailsGuestTexts == { <<"2">>, <<"3">> }
RoomTypeIndexes == {0, 1, 2}
IndicatorIndexes == {0, 1, 2}

BookingNext ==
    \/ \E id \in BookingHotelIds : OpenHotel(id)
    \/ LeaveDetails
    \/ \E t \in CheckInTexts : SetCheckIn(t)
    \/ \E t \in CheckOutTexts : SetCheckOut(t)
    \/ \E t \in DetailsGuestTexts : SetDetailsGuests(t)
    \/ \E r \in RoomTypeIndexes : SelectRoomType(r)
    \/ HandleBooking
    \/ LeaveBooking

BookingSpec == Init /\ [][BookingNext]_vars

(***************************************************************************)
(* The gallery of the page, for every hotel of the catalog                 *)
(***************************************************************************)
GalleryHotelIds == { <<"1">>, <<"2">>, <<"3">> }

GalleryNext ==
    \/ \E id \in GalleryHotelIds : OpenHotel(id)
    \/ LeaveDetails
    \/ \E r \in RoomTypeIndexes : SelectRoomType(r)
    \/ \E t \in DetailsGuestTexts : SetDetailsGuests(t)
    \/ NextImage
    \/ PrevImage
    \/ \E i \in IndicatorIndexes : ClickIndicator(i)

GallerySpec == Init /\ [][GalleryNext]_vars

(***************************************************************************)
(* Resolution of the hotel of the route                                    *)
(***************************************************************************)
DetailsRouteIds == { <<"1">>, <<"2">>, <<"3">>, <<"4">>, <<"5">>, <<"a","b","c">> }

DetailsLoadNext ==
    \/ \E id \in DetailsRouteIds : OpenHotel(id)
    \/ \E i \in 1..Len(pending) : DetailsFetchSettles(i)
    \/ LeaveDetails
    \/ NotFoundHomeLink

DetailsLoadSpec == Init /\ [][DetailsLoadNext]_vars

\* the timers of the fetches all wait the same time (hotelStore.js 274), so
\* the oldest fetch, pending[1], is the one that settles next
DetailsLoadFairSpec ==
    DetailsLoadSpec /\ WF_vars(DetailsFetchSettles(1))

(***************************************************************************)
(* renderStars (HotelDetails.jsx 150-169, SearchResults.jsx 64-83)         *)
(***************************************************************************)
Repeat(icon, n) == [i \in 1..n |-> icon]

\* a version that counts the empty stars from the floor of the rating
renderStarsFloorEmpty(rating) ==
    Repeat("full", rating \div 10)
      \o (IF rating % 10 # 0 THEN <<"half">> ELSE << >>)
      \o Repeat("empty", 5 - rating \div 10)

\* rating is in tenths: Math.floor(rating) is rating \div 10, rating % 1 is
\* rating % 10 and Math.ceil(rating) is (rating + 9) \div 10
renderStars(rating) ==
    Repeat("full", rating \div 10)
      \o (IF rating % 10 # 0 THEN <<"half">> ELSE << >>)
      \o Repeat("empty", 5 - (rating + 9) \div 10)

RenderStarsOn(page, rating) ==
    /\ stars' = [page |-> page, rating |-> rating,
                 icons |-> renderStars(rating)]
    /\ UNCHANGED <<pageAvailability, resultsVars, headerVars, detailsVars>>
    /\ UNCHANGED <<storeVars, exploreVars>>

\* every rating from 0.0 to 5.0 in steps of 0.1
StarRatings == 0..50
StarPages == {"HotelDetails", "SearchResults"}

StarsNext == \E page \in StarPages, r \in StarRatings : RenderStarsOn(page, r)

StarsSpec == Init /\ [][StarsNext]_vars

(***************************************************************************)
(* The route id changing under the mounted page                            *)
(***************************************************************************)
\* A traversal of the session history from /hotel/<a> straight to the entry
\* of /hotel/<b> (the Back button's list of entries): the same <Route>
\* matches, so the page stays mounted with its state, and the effect of
\* lines 40-67 runs for the new id.
SwitchHotel(idText) ==
    /\ RenderedPage = "HotelDetails"
    /\ ~DetailsRenderThrows
    /\ idText # RouteHotelId
    /\ route' = HotelPath(idText)
    /\ navState' = Null
    /\ lastEvent' = [kind |-> "switch hotel", id |-> idText]
    /\ IF getHotelById(hotels, idText) # Undefined
       THEN /\ detailsHotel' = getHotelById(hotels, idText)
            /\ UNCHANGED <<loading, error, pending, lastCall>>
       ELSE /\ Len(pending) < MaxPending
            /\ UNCHANGED detailsHotel
            /\ loading' = TRUE
            /\ error' = NullString
            /\ pending' = Append(Older(pending),
                                 [ kind |-> "fetchHotelById",
                                   id |-> idText,
                                   caller |-> "HotelDetails",
                                   newest |-> TRUE ])
            /\ lastCall' = [op |-> "fetchHotelById", phase |-> "started"]
    /\ UNCHANGED <<currentImageIndex, selectedRoomType, checkIn, checkOut,
                   detailsGuests>>
    /\ UNCHANGED sectionVars
    /\ UNCHANGED <<hotels, searchResults, favorites, bookingData, filters>>
    /\ UNCHANGED <<pageAvailability, resultsVars, headerVars, stars>>
    /\ Persisted

SwitchRouteIds == { <<"1">>, <<"2">>, <<"3">> }

SwitchNext ==
    \/ \E id \in SwitchRouteIds : OpenHotel(id)
    \/ \E id \in SwitchRouteIds : SwitchHotel(id)
    \/ LeaveDetails
    \/ \E r \in RoomTypeIndexes : SelectRoomType(r)
    \/ NextImage
    \/ PrevImage
    \/ \E i \in IndicatorIndexes : ClickIndicator(i)

SwitchSpec == Init /\ [][SwitchNext]_vars

(***************************************************************************)
(* The two date inputs of the booking sidebar under their min attributes   *)
(* (HotelDetails.jsx 408-432)                                              *)
(***************************************************************************)
\* new Date().toISOString().split('T')[0] on the day of the visit
Today == <<"2","0","2","5","-","0","6","-","0","1">>

\* a date picker offers the days from its min on; an empty min offers all
Pickable(text, min) ==
    IF text = << >> \/ min = << >> THEN TRUE
    ELSE DateHours(text) >= DateHours(min)

\* line 417: min={today}
CheckInMin == Today

\* line 430: min={checkIn || today}
CheckOutMin == IF checkIn # << >> THEN checkIn ELSE Today

\* lines 412-418: a day picked or the field cleared
PickCheckIn(text) ==
    /\ Pickable(text, CheckInMin)
    /\ SetCheckIn(text)

\* lines 425-431
PickCheckOut(text) ==
    /\ Pickable(text, CheckOutMin)
    /\ SetCheckOut(text)

PickedCheckIns == { << >>, <<"2","0","2","5","-","0","6","-","0","1">>, <<"2","0","2","5","-","0","6","-","0","3">>, <<"2","0","2","5","-","0","6","-","1","0">>, <<"2","0","2","5","-","0","5","-","2","0">> }
PickedCheckOuts == { << >>, <<"2","0","2","5","-","0","6","-","0","2">>, <<"2","0","2","5","-","0","6","-","0","4">>, <<"2","0","2","5","-","0","5","-","3","0">> }

DatesNext ==
    \/ \E id \in BookingHotelIds : OpenHotel(id)
    \/ LeaveDetails
    \/ \E t \in PickedCheckIns : PickCheckIn(t)
    \/ \E t \in PickedCheckOuts : PickCheckOut(t)
    \/ \E r \in RoomTypeIndexes : SelectRoomType(r)

DatesSpec == Init /\ [][DatesNext]_vars

(***************************************************************************)
(* Pages left while their request is pending: the Explore Section's POST   *)
(* and the Hotel Details fetch by id                                       *)
(***************************************************************************)
\* a link of the Header followed from Home
LeaveHome(to) ==
    /\ ExploreMounted
    /\ FollowLink(to)

AwayCities == { <<"G","o","a">> }
AwayTargets == { <<"/","a","b","o","u","t">> }
AwayRouteIds == { <<"1">>, <<"4">> }

AwayNext ==
    \/ \E v \in AwayCities : ChangeCity(v)
    \/ ClickSearch
    \/ \E i \in 1..Len(requests), r \in Responses : Deliver(i, r)
    \/ \E to \in AwayTargets : LeaveHome(to)
    \/ \E id \in AwayRouteIds : OpenHotel(id)
    \/ \E i \in 1..Len(pending) : DetailsFetchSettles(i)
    \/ LeaveDetails
    \/ NotFoundHomeLink

AwaySpec == Init /\ [][AwayNext]_vars

(***************************************************************************)
(* The two fetches of the store, overlapping (hotelStore.js 257-285)       *)
(***************************************************************************)
OverlapRouteIds == { <<"1">>, <<"2">>, <<"3">>, <<"4">>, <<"5">>, <<"a","b","c">> }

OverlapNext ==
    \/ FetchHotelsStart
    \/ \E id \in OverlapRouteIds : FetchHotelByIdStart(id)
    \/ \E i \in 1..Len(pending) : FetchHotelsEnd(i)
    \/ \E i \in 1..Len(pending) : FetchHotelByIdEnd(i)
    \/ Reload

OverlapSpec == Init /\ [][OverlapNext]_vars

(***************************************************************************)
(* Search Results page: the filter sidebar (pages/SearchResults.jsx)       *)
(***************************************************************************)
ResultsShown == RenderedPage = "SearchResults"

\* lines 8-9: searchParams.get('q') || ''
ResultsQuery == QueryParamQ(route)

\* lines 27-30: the effect runs searchHotels(query, filters) with the
\* filters of the store as they are after the handler
SearchEffect(q) ==
    /\ searchResults' = FilteredHotels(hotels, q, filters')
    /\ lastCall' = [op |-> "searchHotels", query |-> q, filters |-> filters']

\* The page is mounted at /results: localFilters starts as a copy of the
\* store's filters (line 25) and the effect of lines 27-30 runs.
OpenSearchResults(url) ==
    /\ ~ResultsShown
    /\ RouteElement(Pathname(url)) = "SearchResults"
    /\ RouterNavigate(url)
    /\ localFilters' = filters
    /\ showFilters' = FALSE
    /\ filters' = filters
    /\ SearchEffect(QueryParamQ(url))
    /\ lastEvent' = [kind |-> "open results"]
    /\ UNCHANGED <<hotels, loading, error, favorites, bookingData, pending>>
    /\ UNCHANGED <<pageAvailability, headerVars, detailsVars, stars>>
    /\ Persisted

\* what stays as it is under a control of the page that writes no store
ResultsLocalFrame ==
    /\ UNCHANGED <<route, navState, sectionVars>>
    /\ UNCHANGED <<pageAvailability, headerVars, detailsVars, stars>>
    /\ UNCHANGED storeVars

\* line 101: the Filters button
ToggleFilters ==
    /\ ResultsShown
    /\ showFilters' = ~showFilters
    /\ lastEvent' = [kind |-> "filters toggle"]
    /\ UNCHANGED localFilters
    /\ ResultsLocalFrame

\* handleFilterChange (lines 32-35)
HandleFilterChange(key, value) ==
    /\ ResultsShown
    /\ localFilters' = [localFilters EXCEPT ![key] = value]
    /\ lastEvent' = [kind |-> "filter edit", key |-> key]
    /\ UNCHANGED showFilters
    /\ ResultsLocalFrame

\* line 141: parseInt(e.target.value) || 0
ChangeMinPrice(text) == HandleFilterChange("minPrice", OrElse(ParseInt(text), 0))

\* line 149: parseInt(e.target.value) || 1000
ChangeMaxPrice(text) ==
    HandleFilterChange("maxPrice", OrElse(ParseInt(text), 1000))

\* line 163
ChangeLocation(text) == HandleFilterChange("location", text)

\* lines 173-179: the radio of one of the ratings 0, 3, 4, 4.5, read back by
\* parseFloat; ratings are held in tenths
RatingChoices == {0, 30, 40, 45}

ChangeMinRating(rating) ==
    /\ rating \in RatingChoices
    /\ HandleFilterChange("minRating", TextToTenths(TenthsToText(rating)))

\* lines 205-211: the checkbox of an amenity, checked or unchecked
ToggledAmenities(amenities, amenity) ==
    IF amenity \in Range(amenities)
    THEN SelectSeq(amenities, LAMBDA a : a # amenity)
    ELSE Append(amenities, amenity)

ToggleAmenity(amenity) ==
    /\ ResultsShown
    /\ HandleFilterChange("amenities",
                          ToggledAmenities(localFilters.amenities, amenity))

\* what stays as it is when the page writes filters and searchResults
ResultsStoreFrame ==
    /\ UNCHANGED <<route, navState, sectionVars>>
    /\ UNCHANGED <<pageAvailability, headerVars, detailsVars, stars>>
    /\ UNCHANGED <<hotels, loading, error, favorites, bookingData, pending>>

\* applyFilters (lines 37-41): setFilters(localFilters), searchHotels(query,
\* localFilters), setShowFilters(false); filters is a new object, so the
\* effect of lines 27-30 runs once more and its result is the one that stays
ApplyFilters ==
    /\ ResultsShown
    /\ filters' = localFilters @@ filters
    /\ SearchEffect(ResultsQuery)
    /\ showFilters' = FALSE
    /\ lastEvent' = [kind |-> "apply filters"]
    /\ UNCHANGED localFilters
    /\ ResultsStoreFrame
    /\ Persisted

\* defaults that keep the location typed last
clearFiltersDefaultsKeepLocation ==
    [ minPrice |-> 0, maxPrice |-> 1000, location |-> localFilters.location,
      minRating |-> 0, amenities |-> << >> ]

\* lines 44-50: defaultFilters
clearFiltersDefaults ==
    [ minPrice |-> 0, maxPrice |-> 1000, location |-> << >>,
      minRating |-> 0, amenities |-> << >> ]

\* clearFilters (lines 43-54), then the effect as above
ClearFilters ==
    /\ ResultsShown
    /\ localFilters' = clearFiltersDefaults
    /\ filters' = clearFiltersDefaults @@ filters
    /\ SearchEffect(ResultsQuery)
    /\ lastEvent' = [kind |-> "clear filters"]
    /\ UNCHANGED showFilters
    /\ ResultsStoreFrame
    /\ Persisted

\* the Header's Home link: the page is unmounted
LeaveResults ==
    /\ ResultsShown
    /\ RouterNavigate(<<"/">>)
    /\ localFilters' = Null
    /\ showFilters' = FALSE
    /\ lastEvent' = [kind |-> "leave results"]
    /\ UNCHANGED <<pageAvailability, headerVars, detailsVars, stars>>
    /\ UNCHANGED storeVars

ResultsAddresses == { <<"/","r","e","s","u","l","t","s">>, <<"/","r","e","s","u","l","t","s","?","q","=","l","u","x","u","r","y">> }
MinPriceTexts == { <<"a","b","c">> }
MaxPriceTexts == { << >>, <<"4","0","0">> }
LocationTexts == { << >>, <<"f","l">> }
RatingPicks == {45}
AmenityChoices == { <<"S","p","a">> }

ResultsNext ==
    \/ \E url \in ResultsAddresses : OpenSearchResults(url)
    \/ ToggleFilters
    \/ \E t \in MinPriceTexts : ChangeMinPrice(t)
    \/ \E t \in MaxPriceTexts : ChangeMaxPrice(t)
    \/ \E t \in LocationTexts : ChangeLocation(t)
    \/ \E r \in RatingPicks : ChangeMinRating(r)
    \/ \E a \in AmenityChoices : ToggleAmenity(a)
    \/ ApplyFilters
    \/ ClearFilters
    \/ LeaveResults

ResultsSpec == Init /\ [][ResultsNext]_vars

(***************************************************************************)
(* The two budget fields of the Explore Section with typed values          *)
(* (ExploreSection.jsx 389-415)                                            *)
(***************************************************************************)
\* min="500" of the minimum field and max="100000" of the maximum field:
\* the attributes bound the stepper arrows, not the text that is typed
BudgetFloor == 500
BudgetCeiling == 100000

TypedBudgetMins == { << >>, <<"1","0","0">>, <<"2","0","0","0">> }
TypedBudgetMaxs == { << >>, <<"5","0","0","0">>, <<"2","0","0","0","0","0">> }
BudgetCities == { <<"G","o","a">> }

BudgetNext ==
    \/ \E v \in BudgetCities : ChangeCity(v)
    \/ \E t \in TypedBudgetMins : ChangeBudgetMin(t)
    \/ \E t \in TypedBudgetMaxs : ChangeBudgetMax(t)
    \/ ClickSearch
    \/ \E i \in 1..Len(requests), r \in Responses : Deliver(i, r)
    \/ NotFoundHomeLink

BudgetSpec == Init /\ [][BudgetNext]_vars
(***************************************************************************)
(* searchHotels on its own: one call on the freshly created store          *)
(***************************************************************************)
SearchQueries ==
    { << >>, <<"h","o","t","e","l">>, <<"M","I","A","M","I">>, <<"l","u","x","u","r","y">>, <<"m","o","u","n","t","a","i","n">>, <<"z","z","z">> }

SearchMinPrices == {0, 250, 300, 400}
SearchMaxPrices == {0, 249, 350, 1000}
SearchLocations == { << >>, <<"f","l">>, <<"N","E","W"," ","Y","O","R","K">>, <<"p","a","r","i","s">> }
SearchMinRatings == {0, 47, 48, 50}

SearchAmenitySets ==
    { << >>, << <<"S","p","a">> >>, << <<"R","e","s","t","a","u","r","a","n","t">> >>, << <<"s","w","i","m","m","i","n","g"," ","p","o","o","l">> >>,
      << <<"F","r","e","e"," ","W","i","-","F","i">>, <<"R","e","s","t","a","u","r","a","n","t">> >>, << <<"P","a","r","k","i","n","g">> >> }

SearchFilterSets ==
    [ minPrice : SearchMinPrices, maxPrice : SearchMaxPrices,
      location : SearchLocations, minRating : SearchMinRatings,
      amenities : SearchAmenitySets ]

CallSearchHotels ==
    /\ lastCall = NoCall
    /\ \E q \in SearchQueries, f \in SearchFilterSets : SearchHotels(q, f)

SearchSpec == Init /\ [][CallSearchHotels]_vars

(***************************************************************************)
(* C1, C2: what searchHotels returns                                       *)
(***************************************************************************)
Searched == lastCall.op = "searchHotels"

ContainsCI(text, part) == Includes(ToLowerCase(text), ToLowerCase(part))

QueryHolds(h, q) ==
    \/ Len(q) = 0
    \/ ContainsCI(h.name, q)
    \/ ContainsCI(h.location, q)
    \/ ContainsCI(h.description, q)

\* searchHotels returns the list it has just stored (lines 224-225)
Returned(h) == h \in Range(searchResults)

PriceFilter250to350 ==
    [ minPrice |-> 250, maxPrice |-> 350, location |-> << >>,
      minRating |-> 0, amenities |-> << >> ]

\* C1 as stated: with no amenity filter, a catalog hotel is returned if and
\* only if the query is empty or occurs in its name, location or
\* description, its price is within [minPrice, maxPrice], its location
\* contains the location filter and its rating is at least minRating.
C1_AsStated ==
    (Searched /\ lastCall.filters.amenities = << >>) =>
        \A i \in 1..Len(hotels) :
            Returned(hotels[i]) <=>
                /\ QueryHolds(hotels[i], lastCall.query)
                /\ hotels[i].price >= lastCall.filters.minPrice
                /\ hotels[i].price <= lastCall.filters.maxPrice
                /\ ContainsCI(hotels[i].location, lastCall.filters.location)
                /\ hotels[i].rating >= lastCall.filters.minRating

\* C1 amended: the same, except that a maxPrice of 0 sets no upper bound;
\* the list returned is also the store's searchResults; the price filter
\* 250..350 returns exactly Grand Palace Hotel and the default filters
\* with an empty query return the whole catalog.
C1_SearchConjunction ==
    (Searched /\ lastCall.filters.amenities = << >>) =>
        /\ \A i \in 1..Len(hotels) :
              Returned(hotels[i]) <=>
                /\ QueryHolds(hotels[i], lastCall.query)
                /\ hotels[i].price >= lastCall.filters.minPrice
                /\ \/ lastCall.filters.maxPrice = 0
                   \/ hotels[i].price <= lastCall.filters.maxPrice
                /\ ContainsCI(hotels[i].location, lastCall.filters.location)
                /\ hotels[i].rating >= lastCall.filters.minRating
        /\ Range(searchResults) \subseteq Range(hotels)
        /\ (lastCall.query = << >> /\ lastCall.filters = PriceFilter250to350)
              => searchResults = <<hotels[1]>>
        /\ (lastCall.query = << >> /\ lastCall.filters = DefaultFilters)
              => searchResults = hotels

\* a search with a price window that took effect and a query that only a
\* description answers
C1_Witness ==
    /\ Searched
    /\ lastCall.filters = PriceFilter250to350
    /\ lastCall.query = <<"l","u","x","u","r","y">>
    /\ searchResults = <<hotels[1]>>

HasLabelCI(h, amenity) ==
    \E j \in 1..Len(h.amenities) :
        ToLowerCase(h.amenities[j]) = ToLowerCase(amenity)

HasLabelContainingCI(h, amenity) ==
    \E j \in 1..Len(h.amenities) : ContainsCI(h.amenities[j], amenity)

\* C2 as stated: with a non-empty amenity filter, every returned hotel has
\* each filter amenity as one of its own labels (compared without case);
\* occurring inside a longer label does not count.
C2_AsStated ==
    (Searched /\ lastCall.filters.amenities # << >>) =>
        \A i \in 1..Len(hotels) :
            Returned(hotels[i]) =>
                \A k \in 1..Len(lastCall.filters.amenities) :
                    HasLabelCI(hotels[i], lastCall.filters.amenities[k])

\* C2 amended: with a non-empty amenity filter, a hotel that passes the
\* query and the other filters is returned if and only if each filter
\* amenity occurs, compared without case, inside at least one of the
\* hotel's amenity labels (a filter amenity that is part of a longer label
\* counts).
C2_AmenitySubstring ==
    (Searched /\ lastCall.filters.amenities # << >>) =>
        \A i \in 1..Len(hotels) :
            Returned(hotels[i]) <=>
                /\ QueryHolds(hotels[i], lastCall.query)
                /\ hotels[i].price >= lastCall.filters.minPrice
                /\ \/ lastCall.filters.maxPrice = 0
                   \/ hotels[i].price <= lastCall.filters.maxPrice
                /\ ContainsCI(hotels[i].location, lastCall.filters.location)
                /\ hotels[i].rating >= lastCall.filters.minRating
                /\ \A k \in 1..Len(lastCall.filters.amenities) :
                      HasLabelContainingCI(hotels[i],
                                           lastCall.filters.amenities[k])

\* the filter 'Spa' returns the two hotels labelled 'Spa & Wellness'
C2_Witness ==
    /\ Searched
    /\ lastCall.query = << >>
    /\ lastCall.filters = [DefaultFilters EXCEPT !.amenities = << <<"S","p","a">> >>]
    /\ searchResults = <<hotels[1], hotels[2]>>

(***************************************************************************)
(* C3: persistence round trip                                              *)
(***************************************************************************)
\* C3: a reload yields the favorites and filters held before it, the
\* sample catalog, no search results, no booking draft, loading false and
\* error null.
C3_ReloadRoundTrip ==
    [][Reload =>
        /\ favorites' = favorites
        /\ filters' = filters
        /\ hotels' = sampleHotels
        /\ searchResults' = << >>
        /\ bookingData' = Null
        /\ loading' = FALSE
        /\ error' = NullString]_vars

\* a reload that had favourites, changed filters and a booking draft, search
\* results or a failed fetch to lose or to keep
C3_Witness ==
    /\ lastCall.op = "reload"
    /\ favorites = <<4, 1>>
    /\ filters.minRating = 45
    /\ filters.amenities = << <<"S","p","a">> >>
    /\ filters.minPrice = 250
    /\ searchResults = << >>
    /\ bookingData = Null

(***************************************************************************)
(* C4: favourites                                                          *)
(***************************************************************************)
NoDuplicates(seq) ==
    \A i, j \in 1..Len(seq) : seq[i] = seq[j] => i = j

\* C4: adding an id that is already a favourite changes nothing (so adding
\* twice is adding once), adding a new id adds exactly it, removing an id
\* that is no favourite changes nothing, and isFavorite answers membership
\* and changes no state.
C4_FavoritesIdempotent ==
    /\ [](NoDuplicates(favorites))
    /\ [][\A id \in FavoriteIds :
            /\ (AddToFavorites(id) /\ id \in Range(favorites))
                 => favorites' = favorites
            /\ (AddToFavorites(id) /\ id \notin Range(favorites))
                 => /\ Range(favorites') = Range(favorites) \cup {id}
                    /\ Len(favorites') = Len(favorites) + 1
            /\ (RemoveFromFavorites(id) /\ id \notin Range(favorites))
                 => favorites' = favorites
            /\ IsFavorite(id)
                 => /\ lastCall'.ret = (id \in Range(favorites))
                    /\ UNCHANGED <<hotels, loading, error, searchResults,
                                   favorites, bookingData, filters,
                                   storage>>]_vars

\* an add of an id that was already a favourite
C4_Witness ==
    /\ lastCall = [op |-> "addToFavorites", was |-> TRUE]
    /\ favorites = <<3, 1>>

(***************************************************************************)
(* C5: fetchHotelById                                                      *)
(***************************************************************************)
FetchByIdSettled == lastCall.op = "fetchHotelById" /\ lastCall.phase # "started"

InCatalog(id) == \E i \in 1..Len(hotels) : ParseInt(id) = <<hotels[i].id>>

\* C5 as stated: fetchHotelById ends rejected exactly for an id that is in
\* no catalog hotel, then with error = 'Hotel not found' and loading false;
\* for a catalog id it resolves with loading false and error null.
C5_AsStated ==
    FetchByIdSettled =>
        /\ (lastCall.phase = "rejected") <=> ~InCatalog(lastCall.id)
        /\ lastCall.phase = "rejected"
             => (error = <<"H","o","t","e","l"," ","n","o","t"," ","f","o","u","n","d">> /\ loading = FALSE)
        /\ lastCall.phase = "resolved"
             => (error = NullString /\ loading = FALSE)

RequestFailed(resp) ==
    \/ resp.kind = "network error"
    \/ (resp.kind = "http" /\ ~resp.ok)
    \/ (resp.kind = "http" /\ resp.ok /\ resp.json = "parsed"
          /\ resp.body.status # "success")

\* C7: when the recommendation call ends in a transport error, a non-2xx
\* status or a body whose status is not 'success', the route and its state
\* do not change, and the section that issued the call (if it is still
\* the one on screen) shows the generic error.
C7_FailureShowsError ==
    [][(lastEvent'.kind = "response" /\ RequestFailed(lastEvent'.response))
        => /\ route' = route
           /\ navState' = navState
           /\ lastEvent'.live
                => /\ exploreError' = GenericErrorMessage
                   /\ RouteElement(route') = "Home"]_vars

\* a body with status 'error' that carries results all the same, answered
\* to the section on screen
C7_Witness ==
    /\ lastEvent.kind = "response"
    /\ lastEvent.live
    /\ lastEvent.response.kind = "http"
    /\ lastEvent.response.ok
    /\ lastEvent.response.json = "parsed"
    /\ lastEvent.response.body.status = "error"
    /\ exploreError = GenericErrorMessage
    /\ route = <<"/">>

\* C8: a valid submission sets the loading flag; the end of the request
\* (success or failure) leaves the flag of the section that issued it
\* false; and a loading flag that is true is eventually false again.
C8_LoadingClears ==
    /\ [](lastEvent = [kind |-> "submit", outcome |-> "sent"] => isLoading)
    /\ [][(lastEvent'.kind = "response" /\ lastEvent'.live)
            => ~isLoading']_vars
    /\ (isLoading ~> ~isLoading)

\* a failed request whose section is still on screen, idle again
C8_Witness ==
    /\ lastEvent.kind = "response"
    /\ lastEvent.live
    /\ lastEvent.response.kind = "network error"
    /\ ExploreMounted
    /\ ~isLoading
    /\ formData.city = <<"G","o","a">>

SucceededWithResults(resp) ==
    /\ resp.kind = "http" /\ resp.ok /\ resp.json = "parsed"
    /\ resp.body.status = "success"
    /\ Len(resp.body.results) = 1
    /\ Len(resp.body.results[1]) > 0

\* C9 as stated: after a success answer with a non-empty results list the
\* route is the Recommend route carrying that list, and the Recommend page
\* is rendered with one card per result.
C9_AsStated ==
    (lastEvent.kind = "response" /\ SucceededWithResults(lastEvent.response))
        => /\ route = RecommendPath
           /\ navState.recommendations = lastEvent.response.body.results[1]
           /\ RouteElement(route) = "Recommend"
           /\ RecommendCards = Len(lastEvent.response.body.results[1])

SucceededWithEmptyList(resp) ==
    /\ resp.kind = "http" /\ resp.ok /\ resp.json = "parsed"
    /\ resp.body.status = "success"
    /\ resp.body.results = << << >> >>

\* C10 as stated: a 2xx answer with status 'success' and an empty results
\* list, given to the section on screen, leaves the visitor on Home with
\* the generic error shown.
C10_AsStated ==
    (/\ lastEvent.kind = "response"
     /\ lastEvent.live
     /\ SucceededWithEmptyList(lastEvent.response))
        => /\ route = <<"/">>
           /\ exploreError = GenericErrorMessage


C12_AsStated ==
    (/\ lastEvent.kind = "header search"
     /\ Trim(lastEvent.text) # << >>
     /\ isPageAvailable(SearchPath))
        => /\ RenderedPage = "SearchResults"
           /\ QueryParamQ(route) = Trim(lastEvent.text)
           /\ searchQuery = << >>
           /\ ~isSearchOpen

\* C13 as stated: after a visitor on the Not Found page searches for a
\* non-empty text, the router shows the Search Results page with q equal
\* to that text.
C13_AsStated ==
    lastEvent.kind = "not found search"
        => /\ RenderedPage = "SearchResults"
           /\ QueryParamQ(route) = lastEvent.wanted

TablePaths == Range(PathsOf(pageAvailabilityTable))

\* C19: isPageAvailable(path) is true exactly when the table maps the path
\* to true (so false for a path the table does not list);
\* getAvailablePages and getUnavailablePages are disjoint and together
\* list exactly the table's paths; a path is in getAvailablePages exactly
\* when isPageAvailable holds for it; and the table is never changed.
C19_Registry ==
    /\ pageAvailability = pageAvailabilityTable
    /\ \A p \in ProbePaths :
         /\ isPageAvailable(p) <=>
              \E i \in 1..Len(pageAvailabilityTable) :
                  /\ pageAvailabilityTable[i].path = p
                  /\ pageAvailabilityTable[i].available
         /\ p \notin TablePaths => ~isPageAvailable(p)
         /\ p \in Range(getAvailablePages) <=> isPageAvailable(p)
    /\ Range(getAvailablePages) \cap Range(getUnavailablePages) = {}
    /\ Range(getAvailablePages) \cup Range(getUnavailablePages) = TablePaths
    /\ lastEvent.kind = "isPageAvailable"
         => lastEvent.ret = (lastEvent.path \in Range(getAvailablePages))

\* a lookup of a path the table does not list, made after the visitor used
\* the header
C19_Witness ==
    /\ lastEvent.kind = "isPageAvailable"
    /\ lastEvent.path = <<"/","n","o","w","h","e","r","e">>
    /\ lastEvent.ret = FALSE
    /\ isMenuOpen
    /\ route = NotFoundPath

\* C20: whenever the path of the current location is one the table marks
\* unavailable, whether a Header link or the address bar led there, the
\* page shown is the Not Found page; and no Header link click ends on such
\* a path.
C20_UnfinishedPagesUnreachable ==
    /\ TableLookup(pageAvailability, Pathname(route)) = <<FALSE>>
         => RenderedPage = "NotFound"
    /\ lastEvent.kind = "header link"
         => TableLookup(pageAvailability, Pathname(route)) # <<FALSE>>
    /\ \A p \in Range(getUnavailablePages) : RouteElement(p) = "NotFound"

\* the address of an unfinished page was entered directly
C20_Witness ==
    /\ lastEvent.kind = "address"
    /\ route = <<"/","s","e","r","v","i","c","e","s">>
    /\ TableLookup(pageAvailability, route) = <<FALSE>>
    /\ RenderedPage = "NotFound"

(***************************************************************************)
(* Hotel Details                                                           *)
(***************************************************************************)
SelectedRoomPrice == detailsHotel.roomTypes[selectedRoomType + 1].price

C14_PriceOfStay ==
    DetailsShown =>
      /\ (checkIn = << >> \/ checkOut = << >>) =>
           calculateNights = 0 /\ calculateTotalPrice = 0
      /\ (checkIn # << >> /\ checkOut # << >>) =>
           LET span == DateHours(checkOut) - DateHours(checkIn)
           IN  /\ calculateNights * 24 >= span
               /\ (calculateNights - 1) * 24 < span
               /\ calculateTotalPrice = calculateNights * SelectedRoomPrice
      /\ (checkIn = <<"2","0","2","5","-","0","6","-","0","1">> /\ checkOut = <<"2","0","2","5","-","0","6","-","0","4">>
            /\ SelectedRoomPrice = 299) =>
           calculateNights = 3 /\ calculateTotalPrice = 897

C14_GuestsStep ==
    /\ DetailsShown
    /\ DetailsShown'
    /\ detailsGuests' # detailsGuests

\* C14: on the rendered Hotel Details page, a missing check-in or check-out
\* date gives 0 nights and a total of 0; with both dates the nights are the
\* days from check-in to check-out rounded up and the total is the nights
\* times the nightly price of the selected room type (2025-06-01 to
\* 2025-06-04 at 299: 3 nights, 897); a change of the guest count leaves the
\* total as it was.
C14_PriceComputation ==
    /\ []C14_PriceOfStay
    /\ [][C14_GuestsStep => calculateTotalPrice' = calculateTotalPrice]_vars

C14_Witness ==
    /\ DetailsShown
    /\ checkIn = <<"2","0","2","5","-","0","6","-","0","1">>
    /\ checkOut = <<"2","0","2","5","-","0","6","-","0","4">>
    /\ selectedRoomType = 1
    /\ detailsGuests = 3
    /\ calculateTotalPrice = 3 * 499

\* C15: for every rating from 0 to 5, renderStars draws floor(rating) filled
\* stars, one half star exactly when the rating is not a whole number, and
\* 5 - ceil(rating) empty stars, five stars in all (4.0: 4/0/1, 4.5: 4/1/0,
\* 0: 0/0/5, 5: 5/0/0).
C15_StarRendering ==
    stars # NoStars =>
      LET r == stars.rating
          n(icon) == Cardinality({i \in DOMAIN stars.icons : stars.icons[i] = icon})
          floor == CHOOSE f \in 0..5 : f * 10 <= r /\ r < (f + 1) * 10
          ceil == CHOOSE c \in 0..5 : (c - 1) * 10 < r /\ r <= c * 10
      IN  /\ n("full") = floor
          /\ n("half") = (IF r = floor * 10 THEN 0 ELSE 1)
          /\ n("empty") = 5 - ceil
          /\ Len(stars.icons) = 5
          /\ r = 40 => <<n("full"), n("half"), n("empty")>> = <<4, 0, 1>>
          /\ r = 45 => <<n("full"), n("half"), n("empty")>> = <<4, 1, 0>>
          /\ r = 0 => <<n("full"), n("half"), n("empty")>> = <<0, 0, 5>>
          /\ r = 50 => <<n("full"), n("half"), n("empty")>> = <<5, 0, 0>>

C15_Witness ==
    /\ stars # NoStars
    /\ stars.page = "SearchResults"
    /\ stars.rating = 45
    /\ stars.icons = <<"full", "full", "full", "full", "half">>

C16_IndexInRange ==
    DetailsShown =>
      /\ Len(detailsHotel.images) >= 1
      /\ currentImageIndex \in 0..(Len(detailsHotel.images) - 1)
      /\ PrevIndex(NextIndex(currentImageIndex, Len(detailsHotel.images)),
                   Len(detailsHotel.images)) = currentImageIndex

C16_WrapStep ==
    lastEvent'.kind = "image" =>
      LET n == Len(detailsHotel.images)
      IN  /\ (lastEvent'.control = "next" /\ currentImageIndex = n - 1) =>
               currentImageIndex' = 0
          /\ (lastEvent'.control = "previous" /\ currentImageIndex = 0) =>
               currentImageIndex' = n - 1

\* C16: on the rendered Hotel Details page the image index stays within
\* 0..n-1 whatever next, previous and indicator clicks were made; next from
\* n-1 gives 0, previous from 0 gives n-1, and previous undoes next.
C16_Carousel ==
    /\ []C16_IndexInRange
    /\ [][C16_WrapStep]_vars

C16_Witness ==
    /\ DetailsShown
    /\ lastEvent = [kind |-> "image", control |-> "next"]
    /\ currentImageIndex = 0
    /\ Len(detailsHotel.images) = 3

C17_BookNowStep ==
    lastEvent'.kind = "book now" =>
      /\ DetailsShown
      /\ checkIn # << >> /\ checkOut # << >>
      /\ bookingData' =
           [ hotelId |-> detailsHotel.id,
             hotelName |-> detailsHotel.name,
             roomType |-> detailsHotel.roomTypes[selectedRoomType + 1],
             checkIn |-> checkIn,
             checkOut |-> checkOut,
             guests |-> detailsGuests,
             totalPrice |-> calculateTotalPrice ]
      /\ route' = <<"/","b","o","o","k","i","n","g","/">> \o NatToText(detailsHotel.id)
      /\ RenderedPage' = "BookingPage"

\* C17: Book Now fires only on the rendered page with both dates chosen;
\* the step leaves in the store's booking draft the hotel id, the hotel
\* name, the selected room type, the two dates, the guests and the total as
\* computed before the step, whatever draft was there, and the route is
\* /booking/<hotel id>.
C17_BookNow == [][C17_BookNowStep]_vars

C17_Witness ==
    /\ lastEvent = [kind |-> "book now", replaced |-> TRUE]
    /\ bookingData # Null
    /\ bookingData.hotelId = 2
    /\ bookingData.roomType.price = 699
    /\ bookingData.totalPrice = 3 * 699
    /\ route = <<"/","b","o","o","k","i","n","g","/","2">>

C18_InCatalog(idText) == getHotelById(hotels, idText) # Undefined

C18_OpenStep ==
    lastEvent'.kind = "open hotel" =>
      IF C18_InCatalog(lastEvent'.id)
      THEN /\ detailsHotel' = getHotelById(hotels, lastEvent'.id)
           /\ pending' = pending
           /\ loading' = loading
      ELSE /\ Len(pending') = Len(pending) + 1
           /\ pending'[Len(pending')].kind = "fetchHotelById"
           /\ pending'[Len(pending')].id = lastEvent'.id
           /\ loading'

C18_Opened(idText) ==
    /\ lastEvent = [kind |-> "open hotel", id |-> idText]
    /\ ~C18_InCatalog(idText)

C18_Rejected(idText) ==
    /\ lastEvent = [kind |-> "details fetch", id |-> idText,
                    outcome |-> "rejected"]
    /\ route = NotFoundPath

\* C18: opening the page for an id of the catalog shows the hotel at once,
\* starts no fetch and leaves the loading flag as it was; opening it for an
\* id that is not in the catalog starts a fetch by id, and that fetch is
\* eventually rejected with the route set to /404.
C18_Resolution ==
    /\ [][C18_OpenStep]_vars
    /\ \A idText \in DetailsRouteIds :
         C18_Opened(idText) ~> C18_Rejected(idText)

C18_Witness ==
    /\ C18_Rejected(<<"4">>)
    /\ RenderedPage = "NotFound"
    /\ ~loading

(***************************************************************************)
(* Behaviour across pages                                                  *)
(***************************************************************************)
\* C21: on the rendered Hotel Details page with both dates set, check-out
\* is not before check-in, and with Book Now enabled neither the nights nor
\* the total is negative.
C21_AsStated ==
    (DetailsShown /\ checkIn # << >> /\ checkOut # << >>) =>
      /\ DateHours(checkOut) >= DateHours(checkIn)
      /\ ~BookNowDisabled => (calculateNights >= 0 /\ calculateTotalPrice >= 0)

\* the step completes a request of the Explore Section after Home was left
C22_LateResponse ==
    /\ lastEvent'.kind = "response"
    /\ ~lastEvent'.live

\* the step completes a fetch by id after the page of that hotel was left
C22_LateFetch ==
    /\ lastEvent'.kind = "details fetch"
    /\ route # HotelPath(lastEvent'.id)

\* C22: the completion of a request whose page was left does not change
\* the route the visitor is on.
C22_AsStated ==
    [][(C22_LateResponse \/ C22_LateFetch) => route' = route]_vars

\* the step completes the call that was issued last, and no call is left
C23_NewestCompletesLast ==
    /\ Len(pending) = 1
    /\ pending[1].newest
    /\ pending' = << >>
    /\ lastCall'.op \in {"fetchHotels", "fetchHotelById"}
    /\ lastCall'.phase \in {"resolved", "rejected"}

\* C23: when the fetch issued last completes after all the others, the
\* store's error is null if it succeeded and its message if it failed.
C23_AsStated ==
    [][C23_NewestCompletesLast =>
         IF lastCall'.phase = "resolved"
         THEN error' = NullString
         ELSE error' = <<"H","o","t","e","l"," ","n","o","t"," ","f","o","u","n","d">>]_vars

\* C26: while a fetchHotels or fetchHotelById call is pending, the store's
\* loading flag is true.
C26_AsStated == (pending # << >>) => loading

C24_DocumentedDefaults ==
    [ minPrice |-> 0, maxPrice |-> 1000, location |-> << >>,
      minRating |-> 0, amenities |-> << >> ]

C24_SidebarStep ==
    /\ lastEvent'.kind = "filter edit" =>
         /\ filters' = filters
         /\ searchResults' = searchResults
    /\ lastEvent'.kind = "apply filters" =>
         /\ filters' = localFilters
         /\ searchResults' =
              FilteredHotels(hotels, QueryParamQ(route), localFilters)
    /\ lastEvent'.kind = "clear filters" =>
         /\ filters' = C24_DocumentedDefaults
         /\ searchResults' =
              FilteredHotels(hotels, QueryParamQ(route), C24_DocumentedDefaults)

\* C24: on the Search Results page an edit of a filter field leaves the
\* store's filters and searchResults as they were; Apply leaves the store's
\* filters equal to the local edits and searchResults equal to the catalog
\* searched with the q of the address and those filters; Clear all leaves
\* the store's filters at minPrice 0, maxPrice 1000, location '', minRating
\* 0, no amenities, and searchResults equal to the catalog searched with q
\* and these.
C24_FilterSidebar == [][C24_SidebarStep]_vars

C24_Witness ==
    /\ lastEvent.kind = "apply filters"
    /\ route = <<"/","r","e","s","u","l","t","s","?","q","=","l","u","x","u","r","y">>
    /\ filters = [ minPrice |-> 0, maxPrice |-> 400, location |-> <<"f","l">>,
                   minRating |-> 45, amenities |-> << <<"S","p","a">> >> ]
    /\ localFilters = filters
    /\ Len(searchResults) < Len(hotels)

C25_InRange(n) == n \in BudgetFloor..BudgetCeiling

\* C25: the minimum and maximum budgets of the Explore form, and of every
\* request body sent, lie within 500..100000.
C25_AsStated ==
    /\ C25_InRange(formData.budget_min_inr)
    /\ C25_InRange(formData.budget_max_inr)
    /\ \A i \in 1..Len(requests) :
         /\ C25_InRange(requests[i].body.user_preferences.budget_min_inr)
         /\ C25_InRange(requests[i].body.user_preferences.budget_max_inr)

\* a request is in flight whose body carries a budget outside 500..100000
C25_SentOutOfRange ==
    \E i \in 1..Len(requests) :
        ~C25_InRange(requests[i].body.user_preferences.budget_min_inr)

\* C27: on the Hotel Details page of a hotel of the catalog, once no fetch
\* is pending, the hotel's details are displayed, not the error panel or
\* the loading panel.
C27_AsStated ==
    ( /\ RenderedPage = "HotelDetails"
      /\ getHotelById(hotels, RouteHotelId) # Undefined
      /\ pending = << >> )
    => DetailsPanel = "details"

\* the page holds a hotel to display
C28_HotelHeld ==
    /\ RenderedPage = "HotelDetails"
    /\ ~loading
    /\ error = NullString
    /\ detailsHotel # Null

C28_IndexesValid ==
    C28_HotelHeld =>
      /\ selectedRoomType \in 0..(Len(detailsHotel.roomTypes) - 1)
      /\ currentImageIndex \in 0..(Len(detailsHotel.images) - 1)

C28_NewHotelStep ==
    /\ lastEvent'.kind \in {"open hotel", "switch hotel"}
    /\ detailsHotel' # Null
    /\ detailsHotel' # detailsHotel

\* C28: while the page holds a hotel to display, the selected room type and
\* the current image are indexes into that hotel's lists, also after the
\* route id changed under the mounted page; a hotel that is newly displayed
\* has its first room type selected.
C28_AsStated ==
    /\ []C28_IndexesValid
    /\ [][C28_NewHotelStep => selectedRoomType' = 0]_vars

\* a press of the search button or an edit of a field while the section
\* shows its loading state
C29_ActsWhileLoading ==
    /\ ExploreMounted
    /\ isLoading
    /\ lastEvent'.kind \in {"submit", "input"}

\* C29: at most one request of the Explore Section is in flight; while
\* isLoading is true a press of the search button starts no request and no
\* field changes.
C29_AsStated ==
    /\ [](Len(requests) <= 1)
    /\ [][C29_ActsWhileLoading =>
            /\ requests' = requests
            /\ formData' = formData
            /\ selectedDates' = selectedDates
            /\ guests' = guests]_vars

\* the last event followed a navigation target of a page or component
C30_FollowedTarget ==
    \/ lastEvent.kind \in {"header book now", "not found search", "view all"}
    \/ lastEvent.kind = "header search" /\ Trim(lastEvent.text) # << >>

\* C30: every path the registry marks available, and the targets of the
\* Header search and Book Now, of the Featured Section's link, of the Not
\* Found page's search link and of the Explore Section's navigation, have
\* a route to a real page: following one never shows the Not Found page.
C30_AsStated ==
    /\ \A i \in 1..Len(getAvailablePages) :
         RouteElement(getAvailablePages[i]) # "NotFound"
    /\ RouteElement(RecommendPath) # "NotFound"
    /\ C30_FollowedTarget => RenderedPage # "NotFound"
=============================================================================
